---- MODULE Spec2Model ----
(***************************************************************************)
(* A model of labelpc's MainWindow (src/labelpc/app.py): the world <->     *)
(* pixel coordinate mapping and the rack geometry operations (newShape,    *)
(* isTwoRacks, splitTwoRacks, splitRack, splitRacks, unsplitRacks).        *)
(*                                                                         *)
(* Numbers.  The program computes in float64.  The model computes in exact *)
(* rationals <<n, d>> (d > 0, lowest terms), i.e. the real-number reading  *)
(* of every expression; rounding error is not modelled.                    *)
(*                                                                         *)
(* Points.  A world point (numpy pair / tuple) and a pixel point (QPointF) *)
(* are both pairs <<x, y>> of rationals.                                   *)
(***************************************************************************)
EXTENDS Integers, Sequences, FiniteSets, TLC

VARIABLES
  scale,          \* self.scale: edge length of a voxel on the projected plane
  offset,         \* self.offset: QPointF(voxelgrid.min_corner()[:2])
  height,         \* self.canvas.pixmap.height()
  config,         \* self._config[type]: canonical rack size per rack label
  cloud,          \* self.pointcloud.points[['x','y']]: the rows, by index
  filename,       \* self.filename, "None" when no file is open
  voxelgrid,      \* self.voxelgrid: what it was built from, by file and cell
  imageData,      \* self.imageData is a non-empty list of slices
  labelFile,      \* self.labelFile: the label file's name, or "None"
  canvasEnabled,  \* self.canvas.isEnabled()
  actionsEnabled, \* the actions toggleActions switches (self.actions.onLoadActive)
  disk,           \* the files: per name, the point file and the label file
  sliceIdx,       \* self.sliceIdx (0 until the first resetState sets it)
  slices,         \* len(self.imageData), 0 when it is None
  recentFiles,    \* self.recentFiles
  itemsToShapes,  \* self.labelList.itemsToShapes (the shape of each entry)
  canvasShapes,   \* self.canvas.shapes
  selectedItems,  \* self.labelList.selectedItems(), as indices of entries
  dirty,          \* self.dirty
  viewer,         \* self.pointcloud.viewer_is_ready(): a 3D viewer is attached
  vlog,           \* history: the viewer calls the last handler made, in order
  error,          \* the exception the last handler raised, or "none"
  op,             \* history: the handler that ran last, and its arguments
  call            \* history: the last direct call of a pure function

docVars ==
  <<itemsToShapes, canvasShapes, selectedItems, dirty, viewer, vlog, error, op>>
loadVars ==
  <<filename, voxelgrid, imageData, labelFile, canvasEnabled, actionsEnabled,
    disk, sliceIdx, slices, recentFiles>>
fileVars == <<scale, offset, height, config, cloud, loadVars>>
vars == <<fileVars, docVars, call>>

----------------------------------------------------------------------------
(* Exact rational arithmetic standing for the program's float arithmetic.  *)

RECURSIVE GCD(_, _)
GCD(a, b) == IF b = 0 THEN a ELSE GCD(b, a % b)

IAbs(n) == IF n < 0 THEN -n ELSE n

Rat(n, d) ==
  LET g == GCD(IAbs(n), IAbs(d))
      s == IF d < 0 THEN -1 ELSE 1
  IN  <<(s * n) \div g, (s * d) \div g>>

I(n) == <<n, 1>>

Add(a, b) == Rat(a[1] * b[2] + b[1] * a[2], a[2] * b[2])
Sub(a, b) == Rat(a[1] * b[2] - b[1] * a[2], a[2] * b[2])
Mul(a, b) == Rat(a[1] * b[1], a[2] * b[2])
Div(a, b) == Rat(a[1] * b[2], a[2] * b[1])
Lt(a, b) == a[1] * b[2] < b[1] * a[2]
Le(a, b) == a[1] * b[2] <= b[1] * a[2]
Gt(a, b) == Lt(b, a)
RAbs(a) == <<IAbs(a[1]), a[2]>>
RMin(a, b) == IF Lt(b, a) THEN b ELSE a
RMax(a, b) == IF Lt(a, b) THEN b ELSE a

----------------------------------------------------------------------------
(* The coordinate mapping.                                                 *)

\* def qpointToPointcloud(self, p): pixel -> world
qpointToPointcloud(p) ==
  << Add(Mul(p[1], scale), offset[1]),
     Add(Mul(Sub(I(height), p[2]), scale), offset[2]) >>

\* A slip the round trip must catch: the raster's y axis is not flipped back.
pointcloudToQpoint_noflip(p) ==
  << Div(Sub(p[1], offset[1]), scale),
     Div(Sub(p[2], offset[2]), scale) >>

\* def pointcloudToQpoint(self, p): world -> pixel
pointcloudToQpoint(p) ==
  << Div(Sub(p[1], offset[1]), scale),
     Sub(I(height), Div(Sub(p[2], offset[2]), scale)) >>

\* pointcloudToQpoint as it computes once self.scale, self.offset and the
\* pixmap are those of g = [scale, offset, height] (a file just loaded).
pointcloudToQpointIn(g, p) ==
  << Div(Sub(p[1], g.offset[1]), g.scale),
     Sub(I(g.height), Div(Sub(p[2], g.offset[2]), g.scale)) >>

----------------------------------------------------------------------------
(* Rack size heuristics.  A numpy 2x2 array `bounds` is an address into a  *)
(* heap of arrays (a sequence; address = index), so that bounds.copy() and *)
(* the in-place writes bounds[1][0] = ... keep their aliasing.  An array's *)
(* value is <<<<x0, y0>>, <<x1, y1>>>>.                                    *)

\* np.abs(bounds[1] - bounds[0])
absDims(b) == << RAbs(Sub(b[2][1], b[1][1])), RAbs(Sub(b[2][2], b[1][2])) >>

\* A slip: .any() for .all(), so that one long axis is enough.
isTwoRacks_any(type, bounds) ==
  \E i \in 1..2 : Gt(Div(absDims(bounds)[i], Rat(19, 10)), config[type])

\* def isTwoRacks(self, type, bounds)
isTwoRacks(type, bounds) ==
  \A i \in 1..2 : Gt(Div(absDims(bounds)[i], Rat(19, 10)), config[type])

\* The body of splitTwoRacks after `bounds2 = ...`: the axis test and the
\* two in-place writes, in program order (each reads the heap the previous
\* write left).
cutTwoRacks(heap, bounds, bounds2, type) ==
  LET dims == absDims(heap[bounds])
      two  == Mul(config[type], I(2))
      k    == IF Lt(RAbs(Sub(dims[1], two)), RAbs(Sub(dims[2], two)))
              THEN 1 ELSE 2
      h1   == [heap EXCEPT ![bounds][2][k] =
                 Sub(Div(Add(heap[bounds][1][k], heap[bounds][2][k]), I(2)),
                     Rat(1, 20))]
      h2   == [h1 EXCEPT ![bounds2][1][k] =
                 Add(Div(Add(h1[bounds2][1][k], h1[bounds2][2][k]), I(2)),
                     Rat(1, 20))]
  IN  [heap |-> h2, ret |-> <<bounds, bounds2>>]

\* A slip: bounds2 = bounds, the copy forgotten.
splitTwoRacks_nocopy(heap, bounds, type) ==
  cutTwoRacks(heap, bounds, bounds, type)

\* def splitTwoRacks(self, type, bounds): bounds2 = bounds.copy() is a new
\* array; `bounds` itself is written in place and returned first.
splitTwoRacks(heap, bounds, type) ==
  cutTwoRacks(Append(heap, heap[bounds]), bounds, Len(heap) + 1, type)

----------------------------------------------------------------------------
(* Values of the variables a specification does not use.                   *)

NoCall == [fn |-> "none"]
NoOp == [name |-> "none"]

\* self.voxelgrid = None
NoVoxelGrid == [file |-> "None", cell |-> << >>]

\* No file is open and none is on disk.
NoFile ==
  /\ filename = "None"
  /\ voxelgrid = NoVoxelGrid
  /\ imageData = FALSE
  /\ labelFile = "None"
  /\ canvasEnabled = FALSE
  /\ actionsEnabled = FALSE
  /\ disk = << >>
  /\ sliceIdx = 0
  /\ slices = 0
  /\ recentFiles = << >>

NoDocument ==
  /\ itemsToShapes = << >>
  /\ canvasShapes = << >>
  /\ selectedItems = << >>
  /\ dirty = FALSE
  /\ viewer = FALSE
  /\ vlog = << >>
  /\ error = "none"
  /\ op = NoOp

\* The rack labels of the configuration and their canonical sizes.
RackLabels == {"rack"}
CanonicalSizes == {I(2), I(5)}

----------------------------------------------------------------------------
(* SpecCoord: the coordinate mapping on its own, over any offset, non-zero *)
(* cell size and raster height.                                            *)

CoordScales == {Rat(1, 20), Rat(1, 2), I(1), I(3)}
CoordOffsets == {<<I(0), I(0)>>, <<Rat(-7, 2), Rat(5, 4)>>}
CoordHeights == {1, 6}
CoordValues == {Rat(-3, 2), I(0), Rat(7, 3), I(10)}
CoordPoints == CoordValues \X CoordValues

InitCoord ==
  /\ scale \in CoordScales
  /\ offset \in CoordOffsets
  /\ height \in CoordHeights
  /\ config = [l \in RackLabels |-> I(5)]
  /\ cloud = << >>
  /\ NoFile
  /\ NoDocument
  /\ call = NoCall

CallPointcloudToQpoint ==
  \E p \in CoordPoints :
    /\ call' = [fn |-> "pointcloudToQpoint", arg |-> p,
                ret |-> pointcloudToQpoint(p)]
    /\ UNCHANGED <<fileVars, docVars>>

\* The pixel point just produced is mapped back to the world.
CallQpointToPointcloud ==
  /\ call.fn = "pointcloudToQpoint"
  /\ call' = [fn |-> "qpointToPointcloud", arg |-> call.ret,
              ret |-> qpointToPointcloud(call.ret), world |-> call.arg]
  /\ UNCHANGED <<fileVars, docVars>>

NextCoord == CallPointcloudToQpoint \/ CallQpointToPointcloud

SpecCoord == InitCoord /\ [][NextCoord]_vars

\* C1: for every world point p, fixed offset, non-zero cell size and raster
\* height, qpointToPointcloud(pointcloudToQpoint(p)) = p.
C1_RoundTrip ==
  call.fn = "qpointToPointcloud" => call.ret = call.world

C1_Witness ==
  /\ call.fn = "qpointToPointcloud"
  /\ scale = Rat(1, 20)
  /\ offset = <<Rat(-7, 2), Rat(5, 4)>>
  /\ call.world = <<Rat(7, 3), Rat(-3, 2)>>
  /\ call.arg # call.world

----------------------------------------------------------------------------
(* SpecTwoRacks: isTwoRacks and splitTwoRacks called directly.             *)

BoundsValues == {I(0), Rat(19, 5), I(4), I(10)}
BoundsPoints == BoundsValues \X BoundsValues
\* Any two corners, in either order.
AnyBounds == {<<p, q>> : p \in BoundsPoints, q \in BoundsPoints}
\* What newShape passes to splitTwoRacks: a tightened box (minimum corner
\* first) that isTwoRacks accepted.
SplitBounds(type) ==
  {b \in AnyBounds : /\ Le(b[1][1], b[2][1]) /\ Le(b[1][2], b[2][2])
                     /\ isTwoRacks(type, b)}

InitTwoRacks ==
  /\ scale = I(1)
  /\ offset = <<I(0), I(0)>>
  /\ height = 1
  /\ config \in [RackLabels -> CanonicalSizes]
  /\ cloud = << >>
  /\ NoFile
  /\ NoDocument
  /\ call = NoCall

CallIsTwoRacks ==
  \E type \in RackLabels, b \in AnyBounds :
    /\ call' = [fn |-> "isTwoRacks", type |-> type, arg |-> b,
                ret |-> isTwoRacks(type, b)]
    /\ UNCHANGED <<fileVars, docVars>>

CallSplitTwoRacks ==
  \E type \in RackLabels :
    \E b \in SplitBounds(type) :
      LET r == splitTwoRacks(<<b>>, 1, type)
      IN  /\ call' = [fn |-> "splitTwoRacks", type |-> type, arg |-> b,
                      heap |-> r.heap, ret |-> r.ret]
          /\ UNCHANGED <<fileVars, docVars>>

\* The caller writes one coordinate of one of the two returned arrays.
WriteReturned ==
  /\ call.fn = "splitTwoRacks"
  /\ \E i \in 1..2, c \in 1..2, k \in 1..2 :
       call' = [fn |-> "write", written |-> i, before |-> call.heap,
                ret |-> call.ret,
                heap |-> [call.heap EXCEPT ![call.ret[i]][c][k] = I(-1)]]
  /\ UNCHANGED <<fileVars, docVars>>


\* The span of box b on axis k, and its midpoint, from its extreme corners.
SpanOf(b, k) == Sub(RMax(b[1][k], b[2][k]), RMin(b[1][k], b[2][k]))
MidOf(b, k) == Div(Add(b[1][k], b[2][k]), I(2))
\* |span - 2 * canonical|
OffTwice(b, k, type) == RAbs(Sub(SpanOf(b, k), Mul(I(2), config[type])))

\* C2: isTwoRacks is true iff the absolute span on x AND on y each exceed
\* 1.9 times the canonical size, strictly; hence one long axis is not
\* enough and the order of the corners does not matter.
C2_IsTwoRacks ==
  call.fn = "isTwoRacks" =>
    /\ call.ret = \A k \in 1..2 :
                    Lt(Mul(I(19), config[call.type]),
                       Mul(I(10), SpanOf(call.arg, k)))
    /\ call.ret = isTwoRacks(call.type, <<call.arg[2], call.arg[1]>>)

C2_Witness ==
  /\ call.fn = "isTwoRacks"
  /\ call.ret
  /\ config[call.type] = I(2)
  /\ call.arg = <<<<I(10), I(0)>>, <<I(0), I(4)>>>>

\* C3: splitTwoRacks cuts the axis k whose span is nearest 2 * canonical:
\* the first box runs from the minimum to midpoint - 0.05, the second from
\* midpoint + 0.05 to the maximum, both keep the other axis, and the two
\* boxes are separate storage (a write to one leaves the other as it was).
C3_SplitTwoRacks ==
  /\ call.fn = "splitTwoRacks" =>
       LET b0 == call.arg
           b1 == call.heap[call.ret[1]]
           b2 == call.heap[call.ret[2]]
       IN  /\ call.ret[1] # call.ret[2]
           /\ \E k \in 1..2 :
                LET o == 3 - k
                IN  /\ Le(OffTwice(b0, k, call.type), OffTwice(b0, o, call.type))
                    /\ b1[1] = b0[1]
                    /\ b1[2][k] = Sub(MidOf(b0, k), Rat(1, 20))
                    /\ b1[2][o] = b0[2][o]
                    /\ b2[1][k] = Add(MidOf(b0, k), Rat(1, 20))
                    /\ b2[1][o] = b0[1][o]
                    /\ b2[2] = b0[2]
                    /\ Sub(b2[1][k], b1[2][k]) = Rat(1, 10)
  /\ call.fn = "write" =>
       LET other == call.ret[3 - call.written]
       IN  call.heap[other] = call.before[other]

C3_Witness ==
  /\ call.fn = "write"
  /\ call.written = 2
  /\ config["rack"] = I(2)
  /\ call.before[call.ret[1]] = <<<<I(0), I(0)>>, <<Rat(39, 20), I(10)>>>>
  /\ call.before[call.ret[2]] = <<<<Rat(41, 20), I(0)>>, <<I(4), I(10)>>>>

----------------------------------------------------------------------------
(* The document.  A Shape is [label, shape_type, group_id, points], its    *)
(* points in pixel coordinates; group_id is << >> for None and <<n>> for   *)
(* the integer n.  The handlers below transform a record                   *)
(*   d = [items, canvas, sel, dirty, viewer, vlog]                         *)
(* of the variables itemsToShapes, canvasShapes, selectedItems, dirty,     *)
(* viewer and vlog.                                                        *)
(* A shape held by the label list is identified by its index in            *)
(* itemsToShapes; canvas.shapes holds references to the same objects, so   *)
(* an element of canvasShapes is either [item |-> index] or, for a shape   *)
(* the canvas holds and the label list does not, the shape itself.         *)

\* 'rack' in shape.label
isRackLabel(label) == label \in RackLabels

\* group_id = None
NoGroup == << >>

\* Shape.containsPoint for a rectangle: the point lies in the rectangle
\* spanned by the two corners.
containsPoint(shape, pos) ==
  \A k \in 1..2 :
    /\ Le(RMin(shape.points[1][k], shape.points[2][k]), pos[k])
    /\ Le(pos[k], RMax(shape.points[1][k], shape.points[2][k]))

\* PointCloud.in_box_2d(box), for one point p: inside the closed rectangle,
\* the corners in either order.
in_box_2d(box, p) ==
  \A k \in 1..2 :
    /\ Le(RMin(box[1][k], box[2][k]), p[k])
    /\ Le(p[k], RMax(box[1][k], box[2][k]))

\* The least / greatest coordinate on axis k of a non-empty set of points.
MinOn(S, k) == (CHOOSE p \in S : \A q \in S : Le(p[k], q[k]))[k]
MaxOn(S, k) == (CHOOSE p \in S : \A q \in S : Le(q[k], p[k]))[k]

\* The bounding box <<minimum corner, maximum corner>> of the rows of the
\* cloud, from row i on, that lie in box; acc is the bounding box so far,
\* << >> while no row was inside.
RECURSIVE boundsInside(_, _, _)
boundsInside(box, i, acc) ==
  IF i > Len(cloud) THEN acc
  ELSE LET p == cloud[i]
       IN  IF ~ in_box_2d(box, p) THEN boundsInside(box, i + 1, acc)
           ELSE IF acc = << >> THEN boundsInside(box, i + 1, <<p, p>>)
           ELSE boundsInside(box, i + 1,
                  << <<RMin(acc[1][1], p[1]), RMin(acc[1][2], p[2])>>,
                     <<RMax(acc[2][1], p[1]), RMax(acc[2][2], p[2])>> >>)

\* PointCloud.tighten_to_rack(box): the minimal rectangle covering the
\* points inside the box, minimum corner first; the box itself when no
\* point is inside.
tighten_to_rack(box) ==
  LET b == boundsInside(box, 1, << >>)
  IN  IF b = << >> THEN box ELSE b

\* The rows of the cloud within radius of point (2D Euclidean), from row i
\* on: acc = [n, sum] counts and sums them.
RECURSIVE sumNear(_, _, _, _)
sumNear(point, radius, i, acc) ==
  IF i > Len(cloud) THEN acc
  ELSE LET p  == cloud[i]
           dx == Sub(p[1], point[1])
           dy == Sub(p[2], point[2])
       IN  IF Le(Add(Mul(dx, dx), Mul(dy, dy)), Mul(radius, radius))
           THEN sumNear(point, radius, i + 1,
                        [n |-> acc.n + 1,
                         sum |-> <<Add(acc.sum[1], p[1]), Add(acc.sum[2], p[2])>>])
           ELSE sumNear(point, radius, i + 1, acc)

\* PointCloud.snap_to_center(point, radius): the centroid of the points
\* within radius; the point itself when there is none.
snap_to_center(point, radius) ==
  LET a == sumNear(point, radius, 1, [n |-> 0, sum |-> <<I(0), I(0)>>])
  IN  IF a.n = 0 THEN point
      ELSE <<Div(a.sum[1], I(a.n)), Div(a.sum[2], I(a.n))>>

\* The greatest squared distance from centre c among the rows within radius
\* of point, from row i on, and the first row that attains it:
\* acc = [row, d2], row = 0 while no row was within radius.
RECURSIVE farthestNear(_, _, _, _, _)
farthestNear(point, radius, c, i, acc) ==
  IF i > Len(cloud) THEN acc
  ELSE LET p  == cloud[i]
           dx == Sub(p[1], point[1])
           dy == Sub(p[2], point[2])
           cx == Sub(p[1], c[1])
           cy == Sub(p[2], c[2])
           d2 == Add(Mul(cx, cx), Mul(cy, cy))
       IN  IF /\ Le(Add(Mul(dx, dx), Mul(dy, dy)), Mul(radius, radius))
              /\ (acc.row = 0 \/ Lt(acc.d2, d2))
           THEN farthestNear(point, radius, c, i + 1, [row |-> i, d2 |-> d2])
           ELSE farthestNear(point, radius, c, i + 1, acc)

\* PointCloud.snap_to_corner(point, radius): the point within radius that is
\* farthest from the centroid of the points within radius; the point itself
\* when there is none.
snap_to_corner(point, radius) ==
  LET c == snap_to_center(point, radius)
      a == farthestNear(point, radius, c, 1, [row |-> 0, d2 |-> I(0)])
  IN  IF a.row = 0 THEN point ELSE cloud[a.row]

\* A call the handler makes to the viewer side of the point cloud is kept
\* in d.vlog as [call, viewer]: what was called and whether a viewer was
\* attached at that moment (for viewer_is_ready, the value it returned).
Log(d, name) == [d EXCEPT !.vlog = Append(@, [call |-> name, viewer |-> d.viewer])]

\* self.pointcloud.viewer_is_ready(); its value is d.viewer.
viewer_is_ready(d) == Log(d, "viewer_is_ready")

\* PointCloud.render(): starts the 3D viewer and attaches it.
render(d) == [Log(d, "render") EXCEPT !.viewer = TRUE]

\* def render3d(self)
render3d(d) ==
  LET d1 == viewer_is_ready(d)
  IN  IF ~ d.viewer THEN render(d1) ELSE d1

\* def viewLocation3d(self, location)
viewLocation3d(d) ==
  LET d1 == viewer_is_ready(d)
      d2 == IF ~ d.viewer THEN render3d(d1) ELSE d1
  IN  Log(d2, "viewer.set")

\* self.pointcloud.highlight(self.pointcloud.select(inbox, highlighted=False))
highlight(d) == Log(d, "highlight")

\* def addLabel(self, shape): the entry is appended to itemsToShapes.
addLabel(d, shape) == [d EXCEPT !.items = Append(@, shape)]

\* def updatePixmap(self), with image data loaded:
\* self.canvas.loadShapes(self.labelList.shapes) replaces canvas.shapes by
\* the shapes of the label list.
updatePixmap(d) ==
  [d EXCEPT !.canvas = [i \in 1..Len(d.items) |-> [item |-> i]]]

\* def setDirty(self), auto-save off.
setDirty(d) == [d EXCEPT !.dirty = TRUE]

\* def nearestCrosshairIntersection(self, point, threshold=0.3): the loop
\* over the beams, in label-list order, from entry i on.
RECURSIVE crosshairLoop(_, _, _, _, _)
crosshairLoop(d, i, pxy, threshold, acc) ==
  IF i > Len(d.items) THEN acc
  ELSE IF d.items[i].label # "beam"
       THEN crosshairLoop(d, i + 1, pxy, threshold, acc)
       ELSE LET b  == qpointToPointcloud(d.items[i].points[1])
                hx == Lt(RAbs(Sub(b[1], pxy[1])), threshold)
                hy == Lt(RAbs(Sub(b[2], pxy[2])), threshold)
                a1 == [intersection |->
                         << IF hx THEN b[1] ELSE acc.intersection[1],
                            IF hy THEN b[2] ELSE acc.intersection[2] >>,
                       intersected |-> acc.intersected \/ hx \/ hy]
            IN  crosshairLoop(d, i + 1, pxy, threshold, a1)

nearestCrosshairIntersection(d, point, threshold) ==
  LET pxy == qpointToPointcloud(point)
  IN  crosshairLoop(d, 1, pxy, threshold,
                    [intersection |-> pxy, intersected |-> FALSE])

\* newShape's tail: addLabel(shape); updatePixmap(); setDirty().
newShapeDone(d, shape) == setDirty(updatePixmap(addLabel(d, shape)))

\* newShape, `if text == 'beam'`.
newShapeBeam(d, shape) ==
  LET r  == nearestCrosshairIntersection(d, shape.points[1], Rat(3, 10))
      p1 == IF r.intersected
            THEN pointcloudToQpoint(r.intersection)
            ELSE pointcloudToQpoint(
                   snap_to_center(qpointToPointcloud(shape.points[1]),
                                  Rat(1, 2)))
      d1 == viewer_is_ready(d)
      d2 == IF d.viewer THEN viewLocation3d(d1) ELSE d1
  IN  newShapeDone(d2, [shape EXCEPT !.points[1] = p1])

\* newShape, `if text == 'pole'`.
newShapePole(d, shape) ==
  newShapeDone(d,
    [shape EXCEPT !.points[1] =
       pointcloudToQpoint(snap_to_center(qpointToPointcloud(@), Rat(1, 2)))])

\* A slip: only the first vertex of the wall is snapped.
newShapeWall_first(d, shape) ==
  newShapeDone(d,
    [shape EXCEPT !.points[1] =
       pointcloudToQpoint(snap_to_corner(qpointToPointcloud(@), Rat(1, 2)))])

\* newShape, `elif text in ['wall', 'walls']`.
newShapeWall(d, shape) ==
  newShapeDone(d,
    [shape EXCEPT !.points =
       [i \in 1..Len(shape.points) |->
          pointcloudToQpoint(
            snap_to_corner(qpointToPointcloud(shape.points[i]), Rat(1, 2)))]])

\* A slip: the boxes splitTwoRacks returns are stored as they are.
afterSplit_loose(box) == box

\* newShape: tighten_to_rack applied to each box after splitTwoRacks.
afterSplit(box) == tighten_to_rack(box)

\* newShape, `elif 'rack' in text`.  Returns without adding a label when the
\* drawn box holds no point: the drawn shape then stays on the canvas.
newShapeRack(d, text, shape) ==
  LET drawn == << qpointToPointcloud(shape.points[1]),
                  qpointToPointcloud(shape.points[2]) >>
  IN  IF ~ \E i \in 1..Len(cloud) : in_box_2d(drawn, cloud[i]) THEN d
      ELSE
        LET box0 == tighten_to_rack(drawn)
            dv   == IF d.viewer THEN highlight(viewer_is_ready(d))
                    ELSE viewer_is_ready(d)
        IN  IF isTwoRacks(text, box0)
            THEN LET r    == splitTwoRacks(<<box0>>, 1, text)
                     box  == afterSplit(r.heap[r.ret[1]])
                     box2 == afterSplit(r.heap[r.ret[2]])
                     shape2 == [shape EXCEPT !.points =
                                  << pointcloudToQpoint(box2[1]),
                                     pointcloudToQpoint(box2[2]) >>]
                 IN  newShapeDone(addLabel(dv, shape2),
                       [shape EXCEPT !.points =
                          << pointcloudToQpoint(box[1]),
                             pointcloudToQpoint(box[2]) >>])
            ELSE newShapeDone(dv,
                   [shape EXCEPT !.points =
                      << pointcloudToQpoint(box0[1]),
                         pointcloudToQpoint(box0[2]) >>])

\* def newShape(self).  d.canvas ends with the shape just drawn (the canvas
\* appends it before it signals newShape); text and group_id are what the
\* label dialog returned, text "" when it was cancelled.
newShape(d, text, group_id) ==
  LET n == Len(d.canvas)
      shape == [d.canvas[n] EXCEPT !.label = text, !.group_id = group_id]
      d0 == [d EXCEPT !.sel = << >>, !.canvas[n] = shape]
  IN  IF text = ""
      THEN [d EXCEPT !.canvas = SubSeq(d.canvas, 1, n - 1)]
      ELSE IF text = "beam" THEN newShapeBeam(d0, shape)
      ELSE IF text = "pole" THEN newShapePole(d0, shape)
      ELSE IF text \in {"wall", "walls"} THEN newShapeWall(d0, shape)
      ELSE IF isRackLabel(text) THEN newShapeRack(d0, text, shape)
      ELSE newShapeDone(d0, shape)

\* A slip: the containment test dropped, the first rack taken.
RECURSIVE findRack_first(_, _, _)
findRack_first(d, pos, i) ==
  IF i > Len(d.items) THEN 0
  ELSE IF isRackLabel(d.items[i].label) THEN i
  ELSE findRack_first(d, pos, i + 1)

\* splitRack, `if rack is None`: the first entry, from i on, with a rack
\* label that contains pos; 0 stands for None.
RECURSIVE findRack(_, _, _)
findRack(d, pos, i) ==
  IF i > Len(d.items) THEN 0
  ELSE IF isRackLabel(d.items[i].label) /\ containsPoint(d.items[i], pos)
       THEN i
  ELSE findRack(d, pos, i + 1)

\* A slip the frame of a split must catch: the cut faces are moved to the
\* cut position on both axes.
splitRackAt_corner(d, pos, rack) ==
  LET r       == d.items[rack]
      cut     == [r EXCEPT !.points[2] = <<Sub(pos[1], Rat(1, 5)), Sub(pos[2], Rat(1, 5))>>]
      newRack == [r EXCEPT !.points[1] = <<Add(pos[1], Rat(1, 5)), Add(pos[2], Rat(1, 5))>>]
  IN  setDirty(updatePixmap(addLabel([d EXCEPT !.items[rack] = cut],
                                     newRack)))

\* splitRack from `newRack = rack.copy()` on, rack the entry's index.
\* Shape.copy() is a new shape with points of its own.
splitRackAt(d, pos, rack) ==
  LET r    == d.items[rack]
      w0   == qpointToPointcloud(r.points[1])
      w1   == qpointToPointcloud(r.points[2])
      dims == <<Sub(w0[1], w1[1]), Sub(w0[2], w1[2])>>
      k    == IF Gt(RAbs(dims[1]), RAbs(dims[2])) THEN 1 ELSE 2
      cut     == [r EXCEPT !.points[2][k] = Sub(pos[k], Rat(1, 5))]
      newRack == [r EXCEPT !.points[1][k] = Add(pos[k], Rat(1, 5))]
  IN  setDirty(updatePixmap(addLabel([d EXCEPT !.items[rack] = cut],
                                     newRack)))

\* def splitRack(self, pos=None, rack=None), rack = 0 for None.
splitRack(d, pos, rack) ==
  LET found == IF rack = 0 THEN findRack(d, pos, 1) ELSE rack
  IN  IF found = 0 THEN d ELSE splitRackAt(d, pos, found)

\* The indices, in order, of the entries of seq that carry a rack label.
RECURSIVE rackEntries(_, _)
rackEntries(d, seq) ==
  IF seq = << >> THEN << >>
  ELSE IF isRackLabel(d.items[Head(seq)].label)
       THEN <<Head(seq)>> \o rackEntries(d, Tail(seq))
       ELSE rackEntries(d, Tail(seq))

\* splitRacks, the inner loop `for _, shape in self.labelList.itemsToShapes`
\* from entry j on, for the rack at index rack.  c holds x_dim, y_dim, x_c,
\* y_c, computed once before the loop.  The list is the live list: entries
\* that splitRack appends are visited too.  `pos = shape.points[0]` is the
\* beam's own QPointF, so pos.setY / pos.setX write the beam's point.
\* st = [d, calls]: the document and the splitRack calls made so far.
RECURSIVE beamLoop(_, _, _, _)
beamLoop(st, rack, c, j) ==
  IF j > Len(st.d.items) THEN st
  ELSE
    LET d  == st.d
        r  == d.items[rack]
        sh == d.items[j]
        b  == sh.points[1]
        inX == Lt(r.points[1][1], b[1]) /\ Lt(b[1], r.points[2][1])
        inY == Lt(r.points[1][2], b[2]) /\ Lt(b[2], r.points[2][2])
        nearY == Lt(RAbs(Sub(c.y_c, b[2])), Add(Div(c.y_dim, I(2)), I(2)))
        nearX == Lt(RAbs(Sub(c.x_c, b[1])), Add(Div(c.x_dim, I(2)), I(2)))
        pos == IF inX THEN <<b[1], c.y_c>> ELSE <<c.x_c, b[2]>>
        dp == [d EXCEPT !.items[j].points[1] = pos]
    IN  IF sh.label = "beam" /\ ((inX /\ nearY) \/ (~inX /\ inY /\ nearX))
        THEN beamLoop([d |-> splitRack(dp, pos, rack),
                       calls |-> Append(st.calls,
                                   [rack |-> rack, beam |-> j, pos |-> pos])],
                      rack, c, j + 1)
        ELSE beamLoop(st, rack, c, j + 1)

\* splitRacks, the outer loop `for rack in racks`, from position i on.
RECURSIVE rackLoop(_, _, _)
rackLoop(st, racks, i) ==
  IF i > Len(racks) THEN st
  ELSE
    LET r == st.d.items[racks[i]]
        c == [x_dim |-> RAbs(Sub(r.points[1][1], r.points[2][1])),
              y_dim |-> RAbs(Sub(r.points[1][2], r.points[2][2])),
              x_c |-> Div(Add(r.points[1][1], r.points[2][1]), I(2)),
              y_c |-> Div(Add(r.points[1][2], r.points[2][2]), I(2))]
    IN  rackLoop(beamLoop(st, racks[i], c, 1), racks, i + 1)

\* The racks splitRacks works on: the selected ones, or all of them.
candidateRacks(d, selected) ==
  IF selected THEN rackEntries(d, d.sel)
  ELSE rackEntries(d, [i \in 1..Len(d.items) |-> i])

\* def splitRacks(self, selected=False)
splitRacks(d, selected) ==
  rackLoop([d |-> d, calls |-> << >>], candidateRacks(d, selected), 1)

\* QListWidget.removeItemWidget(item) removes the widget displayed in the
\* entry; neither the entry nor itemsToShapes changes.
removeItemWidget(d, i) == d

RECURSIVE removeLoop(_, _)
removeLoop(d, racks) ==
  IF racks = << >> THEN d
  ELSE removeLoop(removeItemWidget(d, Head(racks)), Tail(racks))

\* A slip: the second corner of each rack is not collected.
cornerPoints_first(d, racks) ==
  {qpointToPointcloud(d.items[racks[i]].points[1]) : i \in 1..Len(racks)}

\* The world corners of the entries racks, as unsplitRacks collects them.
cornerPoints(d, racks) ==
  UNION {{qpointToPointcloud(d.items[racks[i]].points[1]),
          qpointToPointcloud(d.items[racks[i]].points[2])} :
         i \in 1..Len(racks)}

\* A slip: the minimum and maximum taken over the pixel corners.
unionCorners_pixel(d, racks) ==
  LET pts == UNION {{d.items[racks[i]].points[1],
                     d.items[racks[i]].points[2]} : i \in 1..Len(racks)}
  IN  << <<MinOn(pts, 1), MinOn(pts, 2)>>, <<MaxOn(pts, 1), MaxOn(pts, 2)>> >>

\* unsplitRacks: pointcloudToQpoint(np.min(points, axis=0)) and
\* pointcloudToQpoint(np.max(points, axis=0)), for a non-empty list.
unionCorners(d, racks) ==
  LET pts == cornerPoints(d, racks)
  IN  << pointcloudToQpoint(<<MinOn(pts, 1), MinOn(pts, 2)>>),
         pointcloudToQpoint(<<MaxOn(pts, 1), MaxOn(pts, 2)>>) >>

\* def unsplitRacks(self).  np.min of an empty list raises ValueError
\* before anything is written.  Returns [d, error].
unsplitRacks(d) ==
  LET racks == rackEntries(d, d.sel)
      d1    == removeLoop(d, IF racks = << >> THEN << >> ELSE Tail(racks))
  IN  IF racks = << >>
      THEN [d |-> d1, error |-> "ValueError"]
      ELSE [d |-> updatePixmap(
                    [d1 EXCEPT !.items[racks[1]].points = unionCorners(d1, racks)]),
            error |-> "none"]

\* An element of canvas.shapes that is a shape of the label list.
isListed(e) == "item" \in DOMAIN e

\* rotateShapes, the body of the inner loop: np.dot(trans, rot) is the row
\* vector trans times rot = ((c, -s), (s, c)).  The angle is given by its
\* cosine and sine, [cos, sin].
rotatePoint(angle, point) ==
  LET trans == qpointToPointcloud(point)
      rot == << <<angle.cos, Sub(I(0), angle.sin)>>, <<angle.sin, angle.cos>> >>
  IN  pointcloudToQpoint(
        << Add(Mul(trans[1], rot[1][1]), Mul(trans[2], rot[2][1])),
           Add(Mul(trans[1], rot[1][2]), Mul(trans[2], rot[2][2])) >>)

rotateShape(angle, shape) ==
  [shape EXCEPT !.points =
     [p \in 1..Len(shape.points) |-> rotatePoint(angle, shape.points[p])]]

\* def rotateShapes(self, angle): every point of every shape of
\* canvas.shapes is replaced.
rotateShapes(d, angle) ==
  [d EXCEPT
     !.items = [i \in 1..Len(d.items) |->
                  IF \E c \in 1..Len(d.canvas) :
                       isListed(d.canvas[c]) /\ d.canvas[c].item = i
                  THEN rotateShape(angle, d.items[i]) ELSE d.items[i]],
     !.canvas = [c \in 1..Len(d.canvas) |->
                   IF isListed(d.canvas[c]) THEN d.canvas[c]
                   ELSE rotateShape(angle, d.canvas[c])]]

\* saveLabels, format_shape(s): the dictionary written for a shape (its
\* flags are left out).
format_shape(shape) ==
  [label |-> shape.label,
   points |-> [p \in 1..Len(shape.points) |-> qpointToPointcloud(shape.points[p])],
   group_id |-> shape.group_id,
   shape_type |-> shape.shape_type]

\* saveLabels: shapes = [format_shape(shape) for shape in labelList.shapes]
formatShapes(d) == [i \in 1..Len(d.items) |-> format_shape(d.items[i])]

\* Shape.addPoint(point): the point is appended.
addPoint(shape, point) == [shape EXCEPT !.points = Append(@, point)]

\* loadLabels, the loop `for p in points: shape.addPoint(...)` from p on;
\* g is the scale, offset and raster height in force.
RECURSIVE addPoints(_, _, _, _)
addPoints(g, shape, points, p) ==
  IF p > Len(points) THEN shape
  ELSE addPoints(g, addPoint(shape, pointcloudToQpointIn(g, points[p])),
                 points, p + 1)

\* A slip: the points of the file are taken as pixel positions.
loadShape_pixels(g, entry) ==
  [label |-> entry.label, shape_type |-> entry.shape_type,
   group_id |-> entry.group_id, points |-> entry.points]

\* loadLabels, the body of the loop: the Shape built from one entry.
loadShape(g, entry) ==
  addPoints(g, [label |-> entry.label, shape_type |-> entry.shape_type,
                group_id |-> entry.group_id, points |-> << >>],
            entry.points, 1)

\* def loadShapes(self, shapes, replace=True), from entry i on: each shape
\* is added to the label list, then canvas.shapes becomes the loaded shapes.
RECURSIVE loadShapes(_, _, _)
loadShapes(d, shapes, i) ==
  IF i > Len(shapes)
  THEN [d EXCEPT !.sel = << >>,
                 !.canvas = [c \in 1..Len(shapes) |->
                               [item |-> Len(d.items) - Len(shapes) + c]]]
  ELSE loadShapes(addLabel(d, shapes[i]), shapes, i + 1)

\* def loadLabels(self, shapes)
loadLabels(g, d, shapes) ==
  loadShapes(d, [i \in 1..Len(shapes) |-> loadShape(g, shapes[i])], 1)

\* def highlightPointsInLabel(self, shape)
highlightPointsInLabel(d, shape) ==
  LET point == qpointToPointcloud(shape.points[1])
      around(r) == << <<Sub(point[1], r), Sub(point[2], r)>>,
                      <<Add(point[1], r), Add(point[2], r)>> >>
      box == IF shape.label = "beam" THEN around(Rat(1, 10))
             ELSE IF shape.label = "pole" THEN around(Rat(1, 20))
             ELSE << point, qpointToPointcloud(shape.points[2]) >>
  IN  IF shape.label \notin {"beam", "pole"} /\ ~ isRackLabel(shape.label) THEN d
      ELSE IF ~ \E i \in 1..Len(cloud) : in_box_2d(box, cloud[i]) THEN d
      ELSE highlight(d)

\* A slip the viewer checks must catch: the selection is highlighted
\* without asking whether a viewer is there.
shapeSelectionChanged_unguarded(d, selected) ==
  LET d1 == [d EXCEPT !.sel = selected]
  IN  IF Len(selected) = 1
      THEN highlightPointsInLabel(d1, d.items[selected[1]])
      ELSE d1

\* def shapeSelectionChanged(self, selected_shapes), the shapes given by
\* their entries in the label list.
shapeSelectionChanged(d, selected) ==
  LET d1 == [d EXCEPT !.sel = selected]
      d2 == viewer_is_ready(d1)
  IN  IF Len(selected) # 1 THEN d1
      ELSE IF d.viewer THEN highlightPointsInLabel(d2, d.items[selected[1]])
      ELSE d2

\* def viewAnnotation3d(self)
viewAnnotation3d(d) == IF d.sel = << >> THEN d ELSE viewLocation3d(d)

\* points.min(axis=0) and points.max(axis=0) of the rows of the cloud with
\* the indices selected (not empty).
selectedMin(selected) ==
  LET S == {cloud[i] : i \in selected} IN <<MinOn(S, 1), MinOn(S, 2)>>
selectedMax(selected) ==
  LET S == {cloud[i] : i \in selected} IN <<MaxOn(S, 1), MaxOn(S, 2)>>

\* A slip the point counts must catch: the rack's second corner is appended
\* instead of assigned.
updateSelectedLabelWithHighlightedPoints_append(d, selected) ==
  LET i  == d.sel[1]
      d1 == Log(viewer_is_ready(d), "viewer.get")
  IN  IF Len(d.sel) # 1 THEN [d |-> d, error |-> "none"]
      ELSE IF ~ d.viewer THEN [d |-> viewer_is_ready(d), error |-> "none"]
      ELSE IF selected = {} THEN [d |-> d1, error |-> "ValueError"]
      ELSE [d |-> [d1 EXCEPT !.items[i].points =
                     Append(@, pointcloudToQpoint(selectedMax(selected)))],
            error |-> "none"]

\* def updateSelectedLabelWithHighlightedPoints(self); selected is what
\* viewer.get('selected') returns, the indices of rows of the cloud.  The
\* minimum of no rows raises ValueError.  Returns [d, error].
updateSelectedLabelWithHighlightedPoints(d, selected) ==
  LET i  == d.sel[1]
      d1 == Log(viewer_is_ready(d), "viewer.get")
      lo == selectedMin(selected)
      hi == selectedMax(selected)
  IN  IF Len(d.sel) # 1 THEN [d |-> d, error |-> "none"]
      ELSE IF ~ d.viewer THEN [d |-> viewer_is_ready(d), error |-> "none"]
      ELSE IF isRackLabel(d.items[i].label)
      THEN IF selected = {} THEN [d |-> d1, error |-> "ValueError"]
           ELSE [d |-> [d1 EXCEPT !.items[i].points[1] = pointcloudToQpoint(lo),
                                  !.items[i].points[2] = pointcloudToQpoint(hi)],
                 error |-> "none"]
      ELSE IF d.items[i].label \in {"beam", "pole"}
      THEN IF selected = {} THEN [d |-> d1, error |-> "ValueError"]
           ELSE [d |-> [d1 EXCEPT !.items[i].points[1] =
                          pointcloudToQpoint(
                            << Div(Add(lo[1], hi[1]), I(2)),
                               Div(Add(lo[2], hi[2]), I(2)) >>)],
                 error |-> "none"]
      ELSE [d |-> d1, error |-> "none"]

\* VoxelGrid.min_corner()[:2]: the per-axis minimum of the points.
min_corner(points) == <<MinOn(points, 1), MinOn(points, 2)>>

\* The raster's height: the number of voxel rows, floor(extent / cell) + 1.
rasterHeight(points, cell) ==
  LET q == Div(Sub(MaxOn(points, 2), MinOn(points, 2)), cell)
  IN  (q[1] \div q[2]) + 1

----------------------------------------------------------------------------
(* Files.  The handlers below transform a record a of all the variables    *)
(* (the fields of d and scale, offset, height, cloud, filename, voxelgrid, *)
(* imageData, labelFile, canvasEnabled, actionsEnabled, disk), with        *)
(* a.error the exception raised, "none" if none, and a.steps the calls     *)
(* made that leave no other trace.  disk[f] is the point file named f      *)
(* ([exists, points]) and, under labels, the label file that belongs to it *)
(* ([exists, shapes]).  The file is opened on its own, not from a          *)
(* directory listing (self.imageList is empty); the OpenFileDialog is      *)
(* accepted; max_points does not cut the file short.                       *)

Step(a, name) == [a EXCEPT !.steps = Append(@, name)]
Raise(a, exception) == [a EXCEPT !.error = exception]

\* A slip: the point cloud of the file open before is kept.
resetState_keepcloud(a) ==
  [a EXCEPT !.items = << >>, !.sel = << >>, !.canvas = << >>,
            !.filename = "None", !.imageData = FALSE, !.labelFile = "None",
            !.scale = << >>, !.offset = << >>, !.height = 0,
            !.viewer = FALSE, !.sliceIdx = 0, !.slices = 0]

\* def resetState(self): among the rest, a new, empty PointCloud.
resetState(a) ==
  [a EXCEPT !.items = << >>, !.sel = << >>, !.canvas = << >>,
            !.filename = "None", !.imageData = FALSE, !.labelFile = "None",
            !.scale = << >>, !.offset = << >>, !.height = 0,
            !.viewer = FALSE, !.cloud = << >>, !.sliceIdx = 0, !.slices = 0]

\* def loadPointCloud(self, filename): returns False after the error
\* message when there is no such file.
loadPointCloud(a, name) ==
  IF ~ a.disk[name].exists THEN Step(a, "errorMessage")
  ELSE [a EXCEPT !.filename = name, !.cloud = a.disk[name].points]

\* def buildVoxelGrid(self).  VoxelGrid(points, cell) signals an
\* EmptyInputError when there is no point; self.voxelgrid is then not
\* assigned.
buildVoxelGrid(a) ==
  IF a.cloud = << >> THEN Raise(a, "EmptyInputError")
  ELSE [Step(a, "buildVoxelGrid") EXCEPT
          !.voxelgrid = [file |-> a.filename, cell |-> a.scale],
          !.offset = min_corner({a.cloud[i] : i \in 1..Len(a.cloud)})]

\* len(self.voxelgrid.bitmap2d(...)): the layers of the points loaded, those
\* of the file self.filename names; none when it names no file.
bitmapLayers(a) ==
  IF a.filename \in DOMAIN a.disk THEN a.disk[a.filename].layers ELSE 0

\* def buildImageData(self): one image per slice of the grid.
buildImageData(a) ==
  IF a.voxelgrid = NoVoxelGrid THEN a
  ELSE [Step(a, "buildImageData") EXCEPT
          !.imageData = bitmapLayers(a) > 0,
          !.slices = bitmapLayers(a)]

\* self.canvas.loadPixmap(...) in updatePixmap: the pixmap has the height of
\* the raster.
loadPixmap(a) ==
  IF ~ a.imageData THEN a
  ELSE [a EXCEPT !.height =
          rasterHeight({a.cloud[i] : i \in 1..Len(a.cloud)}, a.scale)]

\* def setClean(self)
setClean(a) == [a EXCEPT !.dirty = FALSE]

\* def loadLabelsFile(self, filename): the label file beside the point file
\* is read if there is one (a valid one); keep_prev and flags are not
\* configured, so the handler ends in setClean.
loadLabelsFile(a, name) ==
  setClean(
    IF a.disk[name].labels.exists
    THEN loadLabels([scale |-> a.scale, offset |-> a.offset, height |-> a.height],
                    [Step(a, "loadLabels") EXCEPT !.labelFile = name],
                    a.disk[name].labels.shapes)
    ELSE [a EXCEPT !.labelFile = "None"])

\* self.maxRecent = 7
maxRecent == 7

\* list.remove(x) on a list that holds x: the first x is taken out.
RECURSIVE remove(_, _)
remove(list, x) ==
  IF list = << >> THEN << >>
  ELSE IF Head(list) = x THEN Tail(list)
  ELSE <<Head(list)>> \o remove(Tail(list), x)

\* addRecentFile with pop(0) for pop(): a full list loses its first entry.
addRecentFile_front(recent, name) ==
  LET present == \E i \in 1..Len(recent) : recent[i] = name
      kept == IF present THEN remove(recent, name)
              ELSE IF Len(recent) >= maxRecent
                   THEN Tail(recent)
                   ELSE recent
  IN  <<name>> \o kept

\* def addRecentFile(self, filename), on the list self.recentFiles: pop()
\* takes the last entry, insert(0, ...) puts the name in front.
addRecentFile(recent, name) ==
  LET present == \E i \in 1..Len(recent) : recent[i] = name
      kept == IF present THEN remove(recent, name)
              ELSE IF Len(recent) >= maxRecent
                   THEN SubSeq(recent, 1, Len(recent) - 1)
                   ELSE recent
  IN  <<name>> \o kept

\* The two tests of updatePixmap with the index held at the ends instead.
wrapSlice_clamp(idx, n) ==
  LET first == IF idx >= n THEN n - 1 ELSE idx
  IN  IF first < 0 THEN 0 ELSE first

\* The two tests of updatePixmap on self.sliceIdx, n = len(self.imageData).
wrapSlice(idx, n) ==
  LET first == IF idx >= n THEN 0 ELSE idx
  IN  IF first < 0 THEN n - 1 ELSE first

\* def updatePixmap(self), from its first line: nothing without image data;
\* else the slice index is wrapped and the slice and the shapes of the
\* label list are loaded into the canvas.
updateSlicePixmap(a) ==
  IF ~ a.imageData THEN a
  ELSE updatePixmap(loadPixmap([a EXCEPT !.sliceIdx = wrapSlice(@, a.slices)]))

\* def showNextSlice(self, _value=False)
showNextSlice(a) == updateSlicePixmap([a EXCEPT !.sliceIdx = @ + 1])

\* def showLastSlice(self, _value=False)
showLastSlice(a) == updateSlicePixmap([a EXCEPT !.sliceIdx = @ - 1])

\* def loadFile(self, filename); cell is the scale the OpenFileDialog
\* returned.  Nothing in it catches an exception.
loadFile(a, name, cell) ==
  LET a1 == resetState([a EXCEPT !.canvasEnabled = FALSE])
      a2 == loadPointCloud([a1 EXCEPT !.scale = cell], name)
      a3 == buildVoxelGrid(a2)
      a4 == buildImageData(a3)
      a5 == updateSlicePixmap(a4)
      a6 == loadLabelsFile(a5, name)
      a7 == [a6 EXCEPT !.canvasEnabled = TRUE,
                       !.recentFiles = addRecentFile(@, a6.filename)]
  IN  IF a3.error # "none" THEN a3
      ELSE [Step(a7, "toggleActions") EXCEPT !.actionsEnabled = TRUE]

\* self.sourcePath: None at construction and after resetState; nothing
\* assigns it anything else.
sourcePath == "None"

\* def saveLabels(self, filename), the label file that belongs to the point
\* file name.  osp.relpath(self.sourcePath, ...) raises ValueError for None,
\* which `except LabelFileError` does not catch.  Otherwise lf.save writes
\* the file, or fails with a LabelFileError when ~ saveOk.  Returns
\* [a, ret].
saveLabels(a, name, saveOk) ==
  IF sourcePath = "None" THEN [a |-> Raise(a, "ValueError"), ret |-> FALSE]
  ELSE IF ~ saveOk THEN [a |-> Step(a, "errorMessage"), ret |-> FALSE]
  ELSE [a |-> [Step(a, "lf.save") EXCEPT
                 !.disk[name].labels = [exists |-> TRUE, shapes |-> formatShapes(a)],
                 !.labelFile = name],
        ret |-> TRUE]

\* def _saveFile(self, filename), "" for no file chosen.
_saveFile(a, name, saveOk) ==
  IF name = "" THEN a
  ELSE LET r == saveLabels(a, name, saveOk)
       IN  IF r.ret
           THEN setClean([r.a EXCEPT !.recentFiles = addRecentFile(@, name)])
           ELSE r.a

\* def saveFile(self): no flags configured, no output_file; chosen is what
\* saveFileDialog returns.
saveFile(a, chosen, saveOk) ==
  IF ~ a.imageData THEN Raise(a, "AssertionError")
  ELSE IF a.items = << >> THEN Step(a, "errorMessage")
  ELSE IF a.labelFile # "None" THEN _saveFile(a, a.labelFile, saveOk)
  ELSE _saveFile(a, chosen, saveOk)

\* def mayContinue(self).  answer is the user's answer to 'Save
\* annotations?', chosen and saveOk the inputs of saveFile.  Returns
\* [a, ret]; when saveFile raises, the exception leaves mayContinue and
\* nothing is returned (ret FALSE, a.error set).
mayContinue(a, answer, chosen, saveOk) ==
  IF ~ a.dirty THEN [a |-> a, ret |-> TRUE]
  ELSE IF answer = "Discard" THEN [a |-> Step(a, "question"), ret |-> TRUE]
  ELSE IF answer = "Save"
       THEN LET a1 == saveFile(Step(a, "question"), chosen, saveOk)
            IN  [a |-> a1, ret |-> a1.error = "none"]
  ELSE [a |-> Step(a, "question"), ret |-> FALSE]

\* PointCloud.rotate(degrees): x, y rotated about the origin, counter-
\* clockwise positive; the angle is given by its cosine and sine.
rotate(points, angle) ==
  [i \in 1..Len(points) |->
     << Sub(Mul(points[i][1], angle.cos), Mul(points[i][2], angle.sin)),
        Add(Mul(points[i][1], angle.sin), Mul(points[i][2], angle.cos)) >>]

\* s.label[:4], for the labels of this model: only 'walls' has more than
\* four characters.
Prefix4(label) == IF label = "walls" THEN "wall" ELSE label

\* alignRoom, the loop over self.labelList.shapes from entry i on: the
\* first shape that passes the test, 0 when the loop ends without one.
RECURSIVE findWalls(_, _)
findWalls(a, i) ==
  IF i > Len(a.items) THEN 0
  ELSE IF Prefix4(a.items[i].label) = "walls" /\ a.items[i].shape_type = "polygon"
       THEN i
  ELSE findWalls(a, i + 1)

\* Whether the handler made the call name.
Did(a, name) == \E i \in 1..Len(a.steps) : a.steps[i] = name

\* def alignRoom(self), as far as self.rotateShapes(angle).  answer is the
\* user's answer to the question, estimate what align_room_by_walls_polygon
\* returns for the polygon (an angle, by its cosine and sine).
alignRoomRotate(a, answer, estimate) ==
  IF ~ a.dirty THEN a
  ELSE IF answer # "Apply" THEN Step(a, "question")
  ELSE IF findWalls(a, 1) = 0 THEN Step(a, "question")
  ELSE
    LET angle == [cos |-> estimate.cos, sin |-> Sub(I(0), estimate.sin)]
        a1 == [Step(Step(a, "question"), "align_room_by_walls_polygon")
                 EXCEPT !.cloud = rotate(a.cloud, angle)]
        a2 == [Step(a1, "write") EXCEPT !.disk[a.filename].points = a1.cloud]
    IN  rotateShapes(Step(a2, "rotateShapes"), angle)

\* def alignRoom(self), whole: after the rotation, saveFile and loadFile,
\* with their inputs chosen, saveOk and cell.
alignRoom(a, answer, estimate, chosen, saveOk, cell) ==
  LET a3 == alignRoomRotate(a, answer, estimate)
      a4 == saveFile(a3, chosen, saveOk)
  IN  IF ~ Did(a3, "rotateShapes") THEN a3
      ELSE IF a4.error # "none" THEN a4
      ELSE loadFile(Step(a4, "loadFile"), a4.filename, cell)

----------------------------------------------------------------------------
(* SpecTwoRacks, continued: the two boxes splitTwoRacks returned are stored *)
(* as two racks, both are selected, and unsplitRacks merges them.          *)

\* A rack whose corners are the world box b.
RackOf(type, b) ==
  [label |-> type, shape_type |-> "rectangle", group_id |-> NoGroup,
   points |-> <<pointcloudToQpoint(b[1]), pointcloudToQpoint(b[2])>>]

MergeReturned ==
  /\ call.fn = "splitTwoRacks"
  /\ \E sel \in {<<1, 2>>, <<2, 1>>} :
       LET d == [items |-> << RackOf(call.type, call.heap[call.ret[1]]),
                              RackOf(call.type, call.heap[call.ret[2]]) >>,
                 canvas |-> <<[item |-> 1], [item |-> 2]>>, sel |-> sel,
                 dirty |-> TRUE,
                 viewer |-> FALSE, vlog |-> << >>]
           r == unsplitRacks(d)
           s == r.d.items[sel[1]]
       IN  call' = [fn |-> "unsplitRacks", type |-> call.type, arg |-> call.arg,
                    split |-> <<call.heap[call.ret[1]], call.heap[call.ret[2]]>>,
                    error |-> r.error,
                    ret |-> << qpointToPointcloud(s.points[1]),
                               qpointToPointcloud(s.points[2]) >>]
  /\ UNCHANGED <<fileVars, docVars>>

NextTwoRacks ==
  CallIsTwoRacks \/ CallSplitTwoRacks \/ WriteReturned \/ MergeReturned

SpecTwoRacks == InitTwoRacks /\ [][NextTwoRacks]_vars

\* C11: for a tightened box R (minimum corner first) with both spans above
\* 1.9 times the canonical size, unsplitRacks' union of the two boxes that
\* splitTwoRacks(kind, R) returns is exactly R: the 0.1 gap is closed.
C11_MergeOfSplit ==
  call.fn = "unsplitRacks" =>
    /\ call.error = "none"
    /\ call.ret = call.arg

C11_Witness ==
  /\ call.fn = "unsplitRacks"
  /\ config["rack"] = I(2)
  /\ call.arg = <<<<I(0), I(0)>>, <<I(4), I(10)>>>>
  /\ call.split[1][2][1] = Rat(39, 20)
  /\ call.split[2][1][1] = Rat(41, 20)
  /\ call.ret = call.arg

----------------------------------------------------------------------------
(* Spec: the handlers on a loaded file.  Init is the state loadFile leaves *)
(* for a scan of two rack footprints, one long in x and one long in y, and *)
(* no label file.  Positions of the fixture are given relative to the      *)
(* scan's minimum corner.                                                  *)

MaxShapes == 3
MaxSelected == 2

CloudOrigin == <<I(-1), I(2)>>
At(x, y) == <<Add(CloudOrigin[1], x), Add(CloudOrigin[2], y)>>

Cloud ==
  << At(I(0), I(0)), At(I(10), I(0)), At(I(0), I(5)), At(I(10), I(5)),
     At(I(20), I(0)), At(I(22), I(10)), At(I(24), I(0)), At(I(26), I(10)),
     At(I(5), Rat(13, 2)), At(Rat(1, 4), I(0)), At(I(0), Rat(1, 4)) >>
CloudPoints == {Cloud[i] : i \in 1..Len(Cloud)}

\* The canonical rack size of the configuration the file is edited under.
MainConfig == [l \in RackLabels |-> I(3)]

MainScales == {I(1), Rat(1, 2)}

\* Where the user presses and releases to draw a rectangle (world
\* positions; the canvas reports the pixels under them).
DrawnBoxes ==
  { <<At(I(-1), I(-1)), At(I(11), I(6))>>,
    <<At(I(11), I(6)), At(I(-1), I(-1))>>,
    <<At(I(19), I(-1)), At(I(27), I(11))>>,
    <<At(I(19), I(-1)), At(I(23), I(11))>>,
    <<At(I(12), I(7)), At(I(18), I(9))>> }

\* Where the user clicks to place a beam.
BeamClicks == { At(I(5), Rat(5, 2)), At(Rat(26, 5), Rat(32, 5)),
                At(I(23), I(5)) }

\* canvas.prevPoint when the user asks for a split.
SplitClicks == { At(I(5), Rat(5, 2)), At(I(21), I(5)), At(I(15), I(8)) }

\* Where the user clicks to place a pole.
PoleClicks == { At(Rat(1, 10), Rat(1, 10)), At(I(15), I(8)) }

\* The vertices the user clicks to draw a wall polygon.
WallPolygons ==
  { << At(Rat(1, 10), Rat(1, 10)), At(Rat(51, 5), Rat(-1, 5)),
       At(I(10), Rat(26, 5)), At(I(15), I(8)) >> }

Texts == {"", "beam"} \cup RackLabels
AllTexts == Texts \cup {"pole", "wall", "walls"}

\* The shape the canvas hands to newShape for a label text: a rectangle for
\* a rack, a point for a beam.
DrawnShapes(text) ==
  IF text = "beam"
  THEN {[label |-> "", shape_type |-> "point", group_id |-> NoGroup,
         points |-> <<pointcloudToQpoint(w)>>] : w \in BeamClicks}
  ELSE IF text = "pole"
  THEN {[label |-> "", shape_type |-> "point", group_id |-> NoGroup,
         points |-> <<pointcloudToQpoint(w)>>] : w \in PoleClicks}
  ELSE IF text \in {"wall", "walls"}
  THEN {[label |-> "", shape_type |-> "polygon", group_id |-> NoGroup,
         points |-> [i \in 1..Len(w) |-> pointcloudToQpoint(w[i])]] :
        w \in WallPolygons}
  ELSE IF text = ""
  THEN {[label |-> "", shape_type |-> "point", group_id |-> NoGroup,
         points |-> <<pointcloudToQpoint(At(I(0), I(0)))>>]}
  ELSE {[label |-> "", shape_type |-> "rectangle", group_id |-> NoGroup,
         points |-> <<pointcloudToQpoint(b[1]), pointcloudToQpoint(b[2])>>] :
        b \in DrawnBoxes}

\* The files of the fixture: the scan, a point file without points, and a
\* name under which there is no file.  No label file has been saved yet.
Files == {"scan", "empty", "missing"}
\* The layers of thickness self.thickness the points of the scan span: the
\* voxel grid has one slice for each.
ScanLayers == 3
NoLabels == [exists |-> FALSE, shapes |-> << >>]
MainDisk ==
  [f \in Files |->
     [exists |-> f # "missing",
      points |-> IF f = "scan" THEN Cloud ELSE << >>,
      layers |-> IF f = "scan" THEN ScanLayers ELSE 0,
      labels |-> NoLabels]]

Init ==
  /\ scale \in MainScales
  /\ cloud = Cloud
  /\ offset = min_corner(CloudPoints)
  /\ height = rasterHeight(CloudPoints, scale)
  /\ config = MainConfig
  /\ filename = "scan"
  /\ voxelgrid = [file |-> "scan", cell |-> scale]
  /\ imageData = TRUE
  /\ labelFile = "None"
  /\ canvasEnabled = TRUE
  /\ actionsEnabled = TRUE
  /\ disk = MainDisk
  /\ sliceIdx = 0
  /\ slices = ScanLayers
  /\ recentFiles = <<"scan">>
  /\ NoDocument
  /\ call = NoCall

Doc == [items |-> itemsToShapes, canvas |-> canvasShapes,
        sel |-> selectedItems, dirty |-> dirty,
        viewer |-> viewer, vlog |-> << >>]

Install(d) ==
  /\ itemsToShapes' = d.items
  /\ canvasShapes' = d.canvas
  /\ selectedItems' = d.sel
  /\ dirty' = d.dirty
  /\ viewer' = d.viewer
  /\ vlog' = d.vlog

\* The user finishes drawing a shape and answers the label dialog with a
\* text and a group id, one of groups; inputs holds the pairs
\* <<text, shape drawn>> to choose from.
Drawn(texts) == UNION {{<<text, shape>> : shape \in DrawnShapes(text)} : text \in texts}

NewShapeOf(inputs, groups) ==
  \E in \in inputs, group_id \in groups :
    LET text  == in[1]
        shape == in[2]
    IN
      LET d == newShape([Doc EXCEPT !.canvas = Append(@, shape)], text, group_id)
      IN  /\ Len(canvasShapes) < MaxShapes
          /\ Len(d.items) <= MaxShapes
          /\ Install(d)
          /\ error' = "none"
          /\ op' = [name |-> "newShape", text |-> text, drawn |-> shape,
                    added |-> Len(d.items) - Len(itemsToShapes)]
          /\ UNCHANGED <<fileVars, call>>

NewShape == NewShapeOf(Drawn(Texts), {NoGroup})

\* The user asks for a split at canvas.prevPoint.
SplitRack ==
  \E w \in SplitClicks :
    LET pos == pointcloudToQpoint(w)
        d   == splitRack(Doc, pos, 0)
    IN  /\ Len(itemsToShapes) < MaxShapes
        /\ Install(d)
        /\ error' = "none"
        /\ op' = [name |-> "splitRack", pos |-> pos,
                  rack |-> findRack(Doc, pos, 1)]
        /\ UNCHANGED <<fileVars, call>>

\* 'Split All Racks'.
SplitRacks ==
  \E selected \in BOOLEAN :
    LET st == splitRacks(Doc, selected)
    IN  /\ Len(itemsToShapes) < MaxShapes
        /\ Len(st.d.items) <= MaxShapes
        /\ Install(st.d)
        /\ error' = "none"
        /\ op' = [name |-> "splitRacks", selected |-> selected,
                  calls |-> st.calls]
        /\ UNCHANGED <<fileVars, call>>

\* 'Merge Racks'.
UnsplitRacks ==
  LET r == unsplitRacks(Doc)
  IN  /\ Install(r.d)
      /\ error' = r.error
      /\ op' = [name |-> "unsplitRacks"]
      /\ UNCHANGED <<fileVars, call>>

\* The selections the user can make in the label list: up to MaxSelected
\* distinct entries, in the order selectedItems() reports them.
Selections(n) ==
  UNION {{s \in [1..k -> 1..n] : \A i, j \in 1..k : i # j => s[i] # s[j]} :
         k \in 0..MaxSelected}

SelectItems ==
  \E sel \in Selections(Len(itemsToShapes)) :
    /\ sel # selectedItems
    /\ Install(shapeSelectionChanged(Doc, sel))
    /\ error' = "none"
    /\ op' = [name |-> "select"]
    /\ UNCHANGED <<fileVars, call>>

Next == NewShape \/ SplitRack \/ SplitRacks \/ UnsplitRacks \/ SelectItems

Spec == Init /\ [][Next]_vars

----------------------------------------------------------------------------
(* SpecNewShape: newShape alone, over every kind of annotation.            *)

NewShapeAny == NewShapeOf(Drawn(AllTexts), {NoGroup})

SpecNewShape == Init /\ [][NewShapeAny]_vars

----------------------------------------------------------------------------
(* SpecLabels: the shapes newShape stores are formatted as saveLabels      *)
(* formats them for the label file, and the formatted shapes are read back *)
(* by loadLabels, the file, its cell size and the raster unchanged in      *)
(* between.                                                                *)

GroupIds == {NoGroup, <<7>>}

\* Poles, walls, and the racks drawn over the right-hand footprint.
LabelInputs ==
  {in \in Drawn({"pole", "walls"} \cup RackLabels) :
     isRackLabel(in[1]) =>
       in[2].points[1] = pointcloudToQpoint(At(I(19), I(-1)))}

NewShapeGrouped == NewShapeOf(LabelInputs, GroupIds)

\* saveLabels as far as `shapes = [format_shape(shape) for ...]`.
CallFormatShapes ==
  /\ itemsToShapes # << >>
  /\ call' = [fn |-> "saveLabels", arg |-> itemsToShapes,
              ret |-> formatShapes(Doc)]
  /\ UNCHANGED <<fileVars, docVars>>

\* The scale, offset and raster height in force.
Geometry == [scale |-> scale, offset |-> offset, height |-> height]

\* The shapes saveLabels just formatted are loaded into an empty label list.
CallLoadLabels ==
  /\ call.fn = "saveLabels"
  /\ LET d == loadLabels(Geometry,
                         [Doc EXCEPT !.items = << >>, !.canvas = << >>,
                                     !.sel = << >>], call.ret)
     IN  call' = [fn |-> "loadLabels", arg |-> call.ret, saved |-> call.arg,
                  ret |-> d.items, canvas |-> d.canvas]
  /\ UNCHANGED <<fileVars, docVars>>

NextLabels == NewShapeGrouped \/ CallFormatShapes \/ CallLoadLabels

SpecLabels == Init /\ [][NextLabels]_vars

----------------------------------------------------------------------------
(* SpecEdit: the editing operations in any order on a file opened with    *)
(* cell size 1, the 3D viewer rendered at some point; rotateShapes is      *)
(* applied as an operation of its own.                                     *)

InitEdit == Init /\ scale = I(1)

\* How many annotations the user draws; splitting may add to them.
MaxDrawn == 2

\* One rack footprint, one beam and one pole.
EditInputs ==
  {in \in Drawn({"beam", "pole"} \cup RackLabels) :
     in[2].points \in
       { << pointcloudToQpoint(At(I(-1), I(-1))),
            pointcloudToQpoint(At(I(11), I(6))) >>,
         << pointcloudToQpoint(At(I(5), Rat(5, 2))) >>,
         << pointcloudToQpoint(At(Rat(1, 10), Rat(1, 10))) >> }}

NewShapeEdit ==
  /\ Len(itemsToShapes) < MaxDrawn
  /\ NewShapeOf(EditInputs, {NoGroup})

\* Quarter and half turns, by cosine and sine.
EditAngles == { [cos |-> I(0), sin |-> I(1)], [cos |-> I(-1), sin |-> I(0)] }

\* How often rotateShapes is applied; call counts the applications.
MaxTurns == 1
Turns == IF call.fn = "rotateShapes" THEN call.n ELSE 0

RotateShapes ==
  \E angle \in EditAngles :
    /\ itemsToShapes # << >>
    /\ Turns < MaxTurns
    /\ Install(rotateShapes(Doc, angle))
    /\ error' = "none"
    /\ op' = [name |-> "rotateShapes", angle |-> angle]
    /\ call' = [fn |-> "rotateShapes", n |-> Turns + 1]
    /\ UNCHANGED fileVars

\* What the user has selected in the viewer when asking for 'Update Label'.
ViewerSelections == { {}, {1, 4} }

UpdateSelected ==
  \E selected \in ViewerSelections :
    LET r == updateSelectedLabelWithHighlightedPoints(Doc, selected)
    IN  /\ Install(r.d)
        /\ error' = r.error
        /\ op' = [name |-> "updateSelectedLabelWithHighlightedPoints",
                  selected |-> selected]
        /\ UNCHANGED <<fileVars, call>>

\* 'Render points in 3D'.
Render3d ==
  /\ Install(render3d(Doc))
  /\ error' = "none"
  /\ op' = [name |-> "render3d"]
  /\ UNCHANGED <<fileVars, call>>

NextEdit ==
  \/ NewShapeEdit \/ SplitRack \/ SplitRacks \/ UnsplitRacks \/ SelectItems
  \/ RotateShapes \/ UpdateSelected \/ Render3d

SpecEdit == InitEdit /\ [][NextEdit]_vars

----------------------------------------------------------------------------
(* SpecSplitRacks: a rack and beams along it are drawn, in any order, and  *)
(* 'Split All Racks' is asked for.                                         *)

\* Where the user clicks to place the beams: along the rack's centreline,
\* away from every point of the cloud.
CentrelineClicks == { At(I(3), Rat(5, 2)), At(I(5), Rat(5, 2)), At(I(7), Rat(5, 2)) }

SplitInputs ==
  {in \in Drawn(RackLabels) :
     in[2].points = << pointcloudToQpoint(At(I(-1), I(-1))),
                       pointcloudToQpoint(At(I(11), I(6))) >>}
  \cup {<<"beam", [label |-> "", shape_type |-> "point", group_id |-> NoGroup,
                   points |-> <<pointcloudToQpoint(w)>>]>> :
        w \in CentrelineClicks}

NewShapeSplit == NewShapeOf(SplitInputs, {NoGroup})

\* How many annotations splitRacks may leave.
MaxPieces == 5

\* 'Split All Racks' on a full label list.
SplitRacksWide ==
  \E selected \in BOOLEAN :
    LET st == splitRacks(Doc, selected)
    IN  /\ itemsToShapes # << >>
        /\ Len(st.d.items) <= MaxPieces
        /\ Install(st.d)
        /\ error' = "none"
        /\ op' = [name |-> "splitRacks", selected |-> selected,
                  calls |-> st.calls]
        /\ UNCHANGED <<fileVars, call>>

NextSplitRacks == NewShapeSplit \/ SelectItems \/ SplitRacksWide

SpecSplitRacks == InitEdit /\ [][NextSplitRacks]_vars

----------------------------------------------------------------------------
(* SpecViewer: annotations are drawn, selected, viewed and updated while   *)
(* the user opens and closes the 3D viewer.                                *)

\* 'View Label 3D'.
ViewAnnotation3d ==
  /\ Install(viewAnnotation3d(Doc))
  /\ error' = "none"
  /\ op' = [name |-> "viewAnnotation3d"]
  /\ UNCHANGED <<fileVars, call>>

\* The user closes the viewer's window; no handler runs.
CloseViewer ==
  /\ viewer
  /\ viewer' = FALSE
  /\ vlog' = << >>
  /\ error' = "none"
  /\ op' = [name |-> "closeViewer"]
  /\ UNCHANGED <<fileVars, itemsToShapes, canvasShapes, selectedItems, dirty, call>>

\* The beams, and the racks drawn over the right-hand footprint.
ViewerInputs ==
  {in \in Drawn({"beam"} \cup RackLabels) :
     isRackLabel(in[1]) =>
       in[2].points[1] = pointcloudToQpoint(At(I(19), I(-1)))}

NewShapeViewer == NewShapeOf(ViewerInputs, {NoGroup})

NextViewer ==
  \/ NewShapeViewer \/ SelectItems \/ UpdateSelected
  \/ Render3d \/ ViewAnnotation3d \/ CloseViewer

SpecViewer == Init /\ [][NextViewer]_vars

----------------------------------------------------------------------------
(* SpecLoad: files are opened, annotated, saved and aligned, starting from *)
(* the window as constructed.                                              *)

\* The label file saved beside the scan in an earlier session: the walls.
ScanLabels ==
  [exists |-> TRUE,
   shapes |-> << [label |-> "walls", shape_type |-> "polygon",
                  group_id |-> NoGroup,
                  points |-> << At(I(0), I(0)), At(I(10), I(0)),
                                At(I(10), I(5)), At(I(0), I(5)) >>] >>]

\* The files of the fixture and a second scan, which has a label file.
LoadFiles == Files \cup {"scan2"}
LoadDisk ==
  [f \in LoadFiles |->
     [exists |-> f # "missing",
      points |-> IF f \in {"scan", "scan2"} THEN Cloud ELSE << >>,
      layers |-> IF f = "scan" THEN ScanLayers ELSE IF f = "scan2" THEN 1 ELSE 0,
      labels |-> IF f = "scan2" THEN ScanLabels ELSE NoLabels]]

\* MainWindow.__init__: no file is open.
InitLoad ==
  /\ scale = << >>
  /\ offset = << >>
  /\ height = 0
  /\ config = MainConfig
  /\ cloud = << >>
  /\ filename = "None"
  /\ voxelgrid = NoVoxelGrid
  /\ imageData = FALSE
  /\ labelFile = "None"
  /\ canvasEnabled = TRUE
  /\ actionsEnabled = FALSE
  /\ disk = LoadDisk
  /\ sliceIdx = 0
  /\ slices = 0
  /\ recentFiles = << >>
  /\ NoDocument
  /\ call = NoCall

\* All the variables a file-level handler works on, no exception raised and
\* no call made yet.
App ==
  [items |-> itemsToShapes, canvas |-> canvasShapes, sel |-> selectedItems,
   dirty |-> dirty, viewer |-> viewer, vlog |-> << >>,
   scale |-> scale, offset |-> offset, height |-> height, cloud |-> cloud,
   filename |-> filename, voxelgrid |-> voxelgrid, imageData |-> imageData,
   labelFile |-> labelFile, canvasEnabled |-> canvasEnabled,
   actionsEnabled |-> actionsEnabled, disk |-> disk,
   sliceIdx |-> sliceIdx, slices |-> slices, recentFiles |-> recentFiles,
   error |-> "none", steps |-> << >>]

InstallApp(a) ==
  /\ Install(a)
  /\ scale' = a.scale
  /\ offset' = a.offset
  /\ height' = a.height
  /\ cloud' = a.cloud
  /\ filename' = a.filename
  /\ voxelgrid' = a.voxelgrid
  /\ imageData' = a.imageData
  /\ labelFile' = a.labelFile
  /\ canvasEnabled' = a.canvasEnabled
  /\ actionsEnabled' = a.actionsEnabled
  /\ disk' = a.disk
  /\ sliceIdx' = a.sliceIdx
  /\ slices' = a.slices
  /\ recentFiles' = a.recentFiles
  /\ error' = a.error

\* The user opens a file (unsaved changes, if any, discarded) and accepts
\* the OpenFileDialog with a cell size.
LoadFile ==
  \E name \in LoadFiles, cell \in MainScales :
    LET a == loadFile(App, name, cell)
    IN  /\ InstallApp(a)
        /\ op' = [name |-> "loadFile", file |-> name, steps |-> a.steps]
        /\ UNCHANGED <<config, call>>

\* The user draws on the enabled canvas, over the raster of an open file.
LoadTexts == {"walls", "beam"}
DrawShape ==
  /\ canvasEnabled
  /\ imageData
  /\ NewShapeOf(Drawn(LoadTexts), {NoGroup})

\* 'Save', enabled by setDirty; the dialog, if it comes to it, is cancelled
\* or accepted with the name beside the open file.
SaveFile ==
  /\ dirty
  /\ \E chosen \in {"", filename}, saveOk \in BOOLEAN :
       LET a == saveFile(App, chosen, saveOk)
       IN  /\ InstallApp(a)
           /\ op' = [name |-> "saveFile", steps |-> a.steps]
           /\ UNCHANGED <<config, call>>

\* The angles align_room_by_walls_polygon may return, none of them zero:
\* 90 degrees and the angle of the 3-4-5 triangle.
Estimates == { [cos |-> I(0), sin |-> I(1)],
               [cos |-> Rat(3, 5), sin |-> Rat(4, 5)] }

\* 'Align Room'.  op records the cloud and the shapes as they are in memory
\* after the handler's rotation, before it saves and reloads.
AlignRoom ==
  \E answer \in {"Apply", "Cancel"}, estimate \in Estimates,
     chosen \in {"", filename}, saveOk \in BOOLEAN, cell \in MainScales :
    LET r == alignRoomRotate(App, answer, estimate)
        a == alignRoom(App, answer, estimate, chosen, saveOk, cell)
    IN  /\ InstallApp(a)
        /\ op' = [name |-> "alignRoom", answer |-> answer,
                  estimate |-> estimate, steps |-> a.steps,
                  cloud |-> r.cloud, shapes |-> r.items]
        /\ UNCHANGED <<config, call>>

NextLoad == LoadFile \/ DrawShape \/ SaveFile \/ AlignRoom

SpecLoad == InitLoad /\ [][NextLoad]_vars

----------------------------------------------------------------------------
(* SpecContinue: files are opened and annotated, and the user is asked     *)
(* whether to save before the file is closed or replaced.                  *)

\* A handler that closes or replaces the file asks mayContinue.
MayContinue ==
  \E answer \in {"Save", "Discard", "Cancel"}, chosen \in {"", filename},
     saveOk \in BOOLEAN :
    LET r == mayContinue(App, answer, chosen, saveOk)
    IN  /\ InstallApp(r.a)
        /\ op' = [name |-> "mayContinue", answer |-> answer,
                  chosen |-> chosen, ret |-> r.ret, steps |-> r.a.steps]
        /\ UNCHANGED <<config, call>>

NextContinue == LoadFile \/ DrawShape \/ MayContinue

SpecContinue == InitLoad /\ [][NextContinue]_vars

----------------------------------------------------------------------------
(* SpecDirty: a file whose label file holds two racks is opened, and the   *)
(* annotations are edited.                                                 *)

\* The label file beside the scan: two racks side by side.
TwoRacksLabels ==
  [exists |-> TRUE,
   shapes |-> << [label |-> "rack", shape_type |-> "rectangle",
                  group_id |-> NoGroup,
                  points |-> << At(I(0), I(0)), At(I(4), I(5)) >>],
                 [label |-> "rack", shape_type |-> "rectangle",
                  group_id |-> NoGroup,
                  points |-> << At(I(6), I(0)), At(I(10), I(5)) >>] >>]

DirtyDisk == [LoadDisk EXCEPT !["scan"].labels = TwoRacksLabels]

InitDirty ==
  /\ scale = << >>
  /\ offset = << >>
  /\ height = 0
  /\ config = MainConfig
  /\ cloud = << >>
  /\ filename = "None"
  /\ voxelgrid = NoVoxelGrid
  /\ imageData = FALSE
  /\ labelFile = "None"
  /\ canvasEnabled = TRUE
  /\ actionsEnabled = FALSE
  /\ disk = DirtyDisk
  /\ sliceIdx = 0
  /\ slices = 0
  /\ recentFiles = << >>
  /\ NoDocument
  /\ call = NoCall

\* The scan is opened with cell size 1.
LoadScan ==
  LET a == loadFile(App, "scan", I(1))
  IN  /\ InstallApp(a)
      /\ op' = [name |-> "loadFile", file |-> "scan", steps |-> a.steps]
      /\ UNCHANGED <<config, call>>

\* The editing operations, on the raster of the open file.
DrawBeam ==
  /\ canvasEnabled /\ imageData
  /\ NewShapeOf({in \in Drawn({"beam"}) :
                   in[2].points = <<pointcloudToQpoint(At(I(5), Rat(5, 2)))>>},
                {NoGroup})
SplitRackOpen == imageData /\ SplitRack
SplitRacksOpen == imageData /\ SplitRacks
UnsplitRacksOpen == imageData /\ UnsplitRacks
SelectItemsOpen == imageData /\ SelectItems
UpdateSelectedOpen == imageData /\ UpdateSelected
Render3dOpen == imageData /\ Render3d

NextDirty ==
  \/ LoadScan \/ DrawBeam \/ SplitRackOpen \/ SplitRacksOpen
  \/ UnsplitRacksOpen \/ SelectItemsOpen \/ UpdateSelectedOpen \/ Render3dOpen

SpecDirty == InitDirty /\ [][NextDirty]_vars

----------------------------------------------------------------------------
(* SpecSlices: files are opened and the user pages through the slices.     *)
(* call counts the steps forward and back since the file was opened.       *)

MaxSteps == 4

NoSteps == [fn |-> "slices", fwd |-> 0, back |-> 0]

\* A file is opened, as in LoadFile; the count of steps starts again.
OpenFile ==
  \E name \in LoadFiles, cell \in MainScales :
    LET a == loadFile(App, name, cell)
    IN  /\ InstallApp(a)
        /\ op' = [name |-> "loadFile", file |-> name, steps |-> a.steps]
        /\ call' = NoSteps
        /\ UNCHANGED config

\* 'Next slice' and 'Previous slice', enabled by toggleActions.
ShowNextSlice ==
  /\ actionsEnabled
  /\ call.fwd < MaxSteps
  /\ InstallApp(showNextSlice(App))
  /\ op' = [name |-> "showNextSlice"]
  /\ call' = [call EXCEPT !.fwd = @ + 1]
  /\ UNCHANGED config

ShowLastSlice ==
  /\ actionsEnabled
  /\ call.back < MaxSteps
  /\ InstallApp(showLastSlice(App))
  /\ op' = [name |-> "showLastSlice"]
  /\ call' = [call EXCEPT !.back = @ + 1]
  /\ UNCHANGED config

NextSlices == OpenFile \/ DrawBeam \/ ShowNextSlice \/ ShowLastSlice

SpecSlices == InitLoad /\ [][NextSlices]_vars

----------------------------------------------------------------------------
(* SpecCrosshair: beams are placed where the cloud has no points, and the  *)
(* crosshair of the beams is asked for at the same positions.              *)

\* Clicks in the empty part of the raster: no point of the cloud is within
\* 0.5 of any of them.
CrosshairClicks ==
  { At(I(15), I(8)), At(Rat(77, 5), I(3)), At(Rat(61, 4), Rat(11, 2)),
    At(Rat(25, 2), Rat(53, 10)) }

NewShapeCrosshair ==
  NewShapeOf({<<"beam", [label |-> "", shape_type |-> "point",
                         group_id |-> NoGroup,
                         points |-> <<pointcloudToQpoint(w)>>]>> :
                w \in CrosshairClicks},
             {NoGroup})

\* self.nearestCrosshairIntersection(point), as newShape calls it.
CallNearestCrosshairIntersection ==
  \E w \in CrosshairClicks :
    /\ call' = [fn |-> "nearestCrosshairIntersection",
                point |-> pointcloudToQpoint(w),
                items |-> itemsToShapes,
                ret |-> nearestCrosshairIntersection(Doc, pointcloudToQpoint(w),
                                                     Rat(3, 10))]
    /\ UNCHANGED <<fileVars, docVars>>

NextCrosshair == NewShapeCrosshair \/ CallNearestCrosshairIntersection

SpecCrosshair == Init /\ [][NextCrosshair]_vars

----------------------------------------------------------------------------
(* SpecRecent: names are added to the list of recent files.                *)

\* The names added, more of them than the list holds.
RecentNames == {"a", "b", "c", "d", "e", "f", "g", "h"}

\* self.recentFiles as read from the settings: nothing, or a full list.
StoredRecent == {<< >>, <<"a", "b", "c", "d", "e", "f", "g">>}

InitRecent ==
  /\ scale = << >>
  /\ offset = << >>
  /\ height = 0
  /\ config = MainConfig
  /\ cloud = << >>
  /\ filename = "None"
  /\ voxelgrid = NoVoxelGrid
  /\ imageData = FALSE
  /\ labelFile = "None"
  /\ canvasEnabled = TRUE
  /\ actionsEnabled = FALSE
  /\ disk = LoadDisk
  /\ sliceIdx = 0
  /\ slices = 0
  /\ recentFiles \in StoredRecent
  /\ NoDocument
  /\ call = NoCall

\* self.addRecentFile(name), as loadFile and _saveFile call it.
AddRecentFile ==
  \E name \in RecentNames :
    /\ recentFiles' = addRecentFile(recentFiles, name)
    /\ op' = [name |-> "addRecentFile", file |-> name]
    /\ error' = "none"
    /\ UNCHANGED <<scale, offset, height, config, cloud, filename, voxelgrid,
                   imageData, labelFile, canvasEnabled, actionsEnabled, disk,
                   sliceIdx, slices, itemsToShapes, canvasShapes,
                   selectedItems, dirty, viewer, vlog, call>>

NextRecent == AddRecentFile

SpecRecent == InitRecent /\ [][NextRecent]_vars

----------------------------------------------------------------------------
(* Properties of the handlers.  A step is recognised by op', the handler   *)
(* it ran; unprimed variables are the state before the handler.            *)

\* The world corners of a shape, and its extent <<low, high>>, span and
\* centre on axis k in world units.
WorldBox(shape) ==
  <<qpointToPointcloud(shape.points[1]), qpointToPointcloud(shape.points[2])>>
WorldExtent(shape, k) ==
  LET b == WorldBox(shape)
  IN  <<RMin(b[1][k], b[2][k]), RMax(b[1][k], b[2][k])>>
WorldSpan(shape, k) == Sub(WorldExtent(shape, k)[2], WorldExtent(shape, k)[1])
WorldCentre(shape, k) ==
  Div(Add(WorldExtent(shape, k)[1], WorldExtent(shape, k)[2]), I(2))

RackIndices(items) == {i \in 1..Len(items) : isRackLabel(items[i].label)}
BeamIndices(items) == {i \in 1..Len(items) : items[i].label = "beam"}

\* The selected entries that are racks, and the first of them in the order
\* of the selection.
SelectedRacks ==
  {selectedItems[j] : j \in 1..Len(selectedItems)} \cap RackIndices(itemsToShapes)
FirstSelectedRack ==
  LET js == {j \in 1..Len(selectedItems) : selectedItems[j] \in SelectedRacks}
  IN  selectedItems[CHOOSE j \in js : \A m \in js : j <= m]

\* C4 (as claimed): splitRack at a cut inside a rack leaves two racks whose
\* extents on the rack's long axis (greater world extent) are
\* [low, cut - 0.2] and [cut + 0.2, high] in world units, for any cell size.
C4_SplitRackGap ==
  [][ (op'.name = "splitRack" /\ op'.rack # 0) =>
        LET r   == itemsToShapes[op'.rack]
            cut == qpointToPointcloud(op'.pos)
            k   == IF Gt(WorldSpan(r, 1), WorldSpan(r, 2)) THEN 1 ELSE 2
            a   == itemsToShapes'[op'.rack]
            b   == itemsToShapes'[Len(itemsToShapes')]
        IN  /\ WorldExtent(a, k) =
                 <<WorldExtent(r, k)[1], Sub(cut[k], Rat(1, 5))>>
            /\ WorldExtent(b, k) =
                 <<Add(cut[k], Rat(1, 5)), WorldExtent(r, k)[2]>> ]_vars

\* C5: splitRack without an explicit rack, at a position no rack contains,
\* changes neither the label list, nor any shape, nor the dirty flag, and
\* raises nothing.
C5_SplitRackNoRack ==
  [][ ( /\ op'.name = "splitRack"
        /\ ~ \E i \in RackIndices(itemsToShapes) :
               containsPoint(itemsToShapes[i], op'.pos) ) =>
        ( /\ UNCHANGED <<itemsToShapes, canvasShapes, dirty>>
          /\ error' = "none" ) ]_vars

C5_Witness ==
  /\ op.name = "splitRack"
  /\ op.rack = 0
  /\ RackIndices(itemsToShapes) # {}
  /\ BeamIndices(itemsToShapes) # {}

\* Beam j qualifies for rack r: inside the rack's span on one axis and
\* within half-span + 2.0 world units of its centreline on the other.
Qualifies(items, r, j) ==
  LET b == qpointToPointcloud(items[j].points[1])
  IN  \E k \in 1..2 :
        /\ Lt(WorldExtent(items[r], k)[1], b[k])
        /\ Lt(b[k], WorldExtent(items[r], k)[2])
        /\ Lt(RAbs(Sub(WorldCentre(items[r], 3 - k), b[3 - k])),
              Add(Div(WorldSpan(items[r], 3 - k), I(2)), I(2)))

\* C6 (as claimed): splitRacks calls splitRack on a candidate rack for every
\* beam that qualifies, on either axis and for any cell size, at a position
\* on the rack's centreline.
C6_SplitRacksEveryBeam ==
  [][ op'.name = "splitRacks" =>
        LET cand == IF op'.selected THEN SelectedRacks
                    ELSE RackIndices(itemsToShapes)
        IN  \A r \in cand : \A j \in BeamIndices(itemsToShapes) :
              Qualifies(itemsToShapes, r, j) =>
                \E c \in 1..Len(op'.calls) :
                  /\ op'.calls[c].rack = r
                  /\ op'.calls[c].beam = j
                  /\ \E k \in 1..2 :
                       qpointToPointcloud(op'.calls[c].pos)[k] =
                         WorldCentre(itemsToShapes[r], k) ]_vars

\* C7: after unsplitRacks with at least one selected rack, the first
\* selected rack has as corners the per-axis minimum and maximum, in world
\* coordinates, of all corners of all selected racks.
C7_UnsplitUnion ==
  [][ (op'.name = "unsplitRacks" /\ SelectedRacks # {}) =>
        LET pts == UNION {{WorldBox(itemsToShapes[i])[1],
                           WorldBox(itemsToShapes[i])[2]} : i \in SelectedRacks}
            s   == itemsToShapes'[FirstSelectedRack]
        IN  /\ WorldBox(s)[1] = <<MinOn(pts, 1), MinOn(pts, 2)>>
            /\ WorldBox(s)[2] = <<MaxOn(pts, 1), MaxOn(pts, 2)>> ]_vars

C7_Witness ==
  /\ op.name = "unsplitRacks"
  /\ error = "none"
  /\ Cardinality(SelectedRacks) = 2
  /\ \E i \in SelectedRacks \ {FirstSelectedRack} :
       WorldBox(itemsToShapes[i]) # WorldBox(itemsToShapes[FirstSelectedRack])

\* C8 (as claimed): after unsplitRacks with n >= 2 selected racks the label
\* list holds n - 1 racks fewer.
C8_UnsplitDiscards ==
  [][ (op'.name = "unsplitRacks" /\ Cardinality(SelectedRacks) >= 2) =>
        Cardinality(RackIndices(itemsToShapes')) =
          Cardinality(RackIndices(itemsToShapes))
            - (Cardinality(SelectedRacks) - 1) ]_vars

\* C9 (as claimed): unsplitRacks with no rack in the selection raises no
\* error and leaves every annotation unchanged.
C9_UnsplitNoRack ==
  [][ (op'.name = "unsplitRacks" /\ SelectedRacks = {}) =>
        (error' = "none" /\ UNCHANGED itemsToShapes) ]_vars

\* A rack is tightened: tighten_to_rack maps its box to itself.
IsTightened(shape) ==
  LET box == << <<WorldExtent(shape, 1)[1], WorldExtent(shape, 2)[1]>>,
                <<WorldExtent(shape, 1)[2], WorldExtent(shape, 2)[2]>> >>
  IN  tighten_to_rack(box) = box

\* C10 (as claimed): every split and merge re-tightens its boxes, so after
\* any sequence of operations every rack is tightened.
C10_AlwaysTightened ==
  \A i \in RackIndices(itemsToShapes) : IsTightened(itemsToShapes[i])

\* C10 (amended): the racks newShape adds, whether or not it split the
\* drawn box with splitTwoRacks, are tightened.
C10_NewShapeTightens ==
  (op.name = "newShape" /\ isRackLabel(op.text)) =>
    \A i \in (Len(itemsToShapes) - op.added + 1)..Len(itemsToShapes) :
      IsTightened(itemsToShapes[i])

C10_Witness ==
  /\ op.name = "newShape"
  /\ isRackLabel(op.text)
  /\ op.added = 2
  /\ IsTightened(itemsToShapes[Len(itemsToShapes)])
  /\ WorldSpan(itemsToShapes[Len(itemsToShapes)], 1) = I(2)

\* The entries newShape just added (the last op.added ones) and the label
\* list as it was before.
AddedByNewShape == (Len(itemsToShapes) - op.added + 1)..Len(itemsToShapes)
ItemsBefore == SubSeq(itemsToShapes, 1, Len(itemsToShapes) - op.added)
WorldPoint(shape, i) == qpointToPointcloud(shape.points[i])

\* newShape gave the new point annotation snap_to_center of where it was
\* drawn.
SnappedToCenter ==
  WorldPoint(itemsToShapes[Len(itemsToShapes)], 1) =
    snap_to_center(WorldPoint(op.drawn, 1), Rat(1, 2))

\* newShape gave every vertex of the new wall snap_to_corner of where it
\* was drawn.
SnappedToCorner ==
  LET new == itemsToShapes[Len(itemsToShapes)]
  IN  /\ Len(new.points) = Len(op.drawn.points)
      /\ \A i \in 1..Len(new.points) :
           WorldPoint(new, i) = snap_to_corner(WorldPoint(op.drawn, i), Rat(1, 2))

\* newShape set the corners of the new rack(s) from tighten_to_rack: one
\* rack is tighten_to_rack of the drawn box; two racks are tightened boxes
\* inside it.
SetFromTighten ==
  LET box == tighten_to_rack(<<WorldPoint(op.drawn, 1), WorldPoint(op.drawn, 2)>>)
  IN  /\ op.added = 1 => WorldBox(itemsToShapes[Len(itemsToShapes)]) = box
      /\ op.added = 2 =>
           \A i \in AddedByNewShape :
             /\ IsTightened(itemsToShapes[i])
             /\ \A c \in 1..2 : in_box_2d(box, WorldBox(itemsToShapes[i])[c])

\* The beams already in the list that lie within 0.3 world units of the new
\* beam's drawn position on axis k.
BeamsNear(k) ==
  {j \in BeamIndices(ItemsBefore) :
     Lt(RAbs(Sub(WorldPoint(ItemsBefore[j], 1)[k], WorldPoint(op.drawn, 1)[k])),
        Rat(3, 10))}
LastOf(S) == CHOOSE j \in S : \A m \in S : m <= j

\* The new beam sits on the crosshair of the beams near it: on each axis
\* the coordinate of the last listed beam within 0.3, else where it was drawn.
SnappedToCrosshair ==
  \A k \in 1..2 :
    WorldPoint(itemsToShapes[Len(itemsToShapes)], 1)[k] =
      IF BeamsNear(k) # {}
      THEN WorldPoint(ItemsBefore[LastOf(BeamsNear(k))], 1)[k]
      ELSE WorldPoint(op.drawn, 1)[k]

OpDid(name) == \E i \in 1..Len(op'.steps) : op'.steps[i] = name

\* A world position turned counter-clockwise about the world origin by the
\* angle with the given cosine and sine.
TurnedCcw(w, angle) ==
  << Sub(Mul(w[1], angle.cos), Mul(w[2], angle.sin)),
     Add(Mul(w[1], angle.sin), Mul(w[2], angle.cos)) >>

Opposite(angle) == [cos |-> angle.cos, sin |-> Sub(I(0), angle.sin)]

\* Whether shapes are the shapes before, every vertex turned by the angle.
ShapesTurned(shapes, before, angle) ==
  /\ Len(shapes) = Len(before)
  /\ \A i \in 1..Len(before) :
       /\ Len(shapes[i].points) = Len(before[i].points)
       /\ \A j \in 1..Len(before[i].points) :
            qpointToPointcloud(shapes[i].points[j]) =
              TurnedCcw(qpointToPointcloud(before[i].points[j]), angle)

WallsPolygonExists ==
  \E i \in 1..Len(itemsToShapes) :
    /\ itemsToShapes[i].label = "walls"
    /\ itemsToShapes[i].shape_type = "polygon"

\* C13 (as claimed): whenever alignRoom runs while a polygon labelled
\* 'walls' exists and the user answers Apply, with or without unsaved
\* changes, the angle obtained from align_room_by_walls_polygon (taken with
\* either sign) is applied as one rotation to every point of the cloud and
\* to every vertex of every annotation.
C13_AlignRoomRotates ==
  [][ (op'.name = "alignRoom" /\ op'.answer = "Apply" /\ WallsPolygonExists) =>
        \E angle \in {op'.estimate, Opposite(op'.estimate)} :
          /\ op'.cloud = rotate(cloud, angle)
          /\ ShapesTurned(op'.shapes, itemsToShapes, angle) ]_vars

C17_EmptyInputRecovered ==
  [][ (op'.name = "loadFile" /\ disk[op'.file].exists
         /\ disk[op'.file].points = << >>) =>
        /\ error' = "none"
        /\ ~ OpDid("buildImageData")
        /\ ~ imageData' ]_vars


\* C15 (as claimed): rotateShapes(angle) takes the world position (x, y) of
\* every vertex of every annotation to its counter-clockwise rotation about
\* the world origin, (x*cos - y*sin, x*sin + y*cos).
C15_RotateShapesCcw ==
  [][ op'.name = "rotateShapes" =>
        ShapesTurned(itemsToShapes', itemsToShapes, op'.angle) ]_vars

\* Whether an entry before entry i of the viewer calls of the handler is
\* the call name made with a viewer attached or not, as given.
Earlier(i, name, attached) ==
  \E j \in 1..(i - 1) : vlog[j].call = name /\ vlog[j].viewer = attached

\* C18: every call of pointcloud.highlight, viewer.set or viewer.get comes
\* after viewer_is_ready() returned true in the same handler, or, for
\* viewer.set, after the handler had the viewer rendered; and a viewer is
\* attached whenever such a call is made.
C18_ViewerGuarded ==
  \A i \in 1..Len(vlog) :
    /\ vlog[i].call \in {"highlight", "viewer.get"} =>
         vlog[i].viewer /\ Earlier(i, "viewer_is_ready", TRUE)
    /\ vlog[i].call = "viewer.set" =>
         /\ vlog[i].viewer
         /\ Earlier(i, "viewer_is_ready", TRUE) \/ Earlier(i, "render", FALSE)

\* 'View Label 3D' with no viewer open: the viewer is rendered and then set.
C18_Witness ==
  /\ op.name = "viewAnnotation3d"
  /\ \E i \in 1..Len(vlog) :
       vlog[i].call = "viewer.set" /\ Earlier(i, "render", FALSE)

\* C20: whatever newShape, splitRack, splitRacks, unsplitRacks, rotateShapes
\* and updateSelectedLabelWithHighlightedPoints have done, every rack drawn
\* as a rectangle has exactly 2 points and every beam or pole drawn as a
\* point has exactly 1.
C20_PointCounts ==
  \A i \in 1..Len(itemsToShapes) :
    LET shape == itemsToShapes[i]
    IN  /\ (isRackLabel(shape.label) /\ shape.shape_type = "rectangle") =>
             Len(shape.points) = 2
        /\ (shape.label \in {"beam", "pole"} /\ shape.shape_type = "point") =>
             Len(shape.points) = 1

\* A rack has just been set from the points selected in the viewer, beside
\* a beam or a pole.
C20_Witness ==
  /\ op.name = "updateSelectedLabelWithHighlightedPoints"
  /\ op.selected # {}
  /\ Len(selectedItems) = 1
  /\ viewer
  /\ isRackLabel(itemsToShapes[selectedItems[1]].label)
  /\ \E i \in 1..Len(itemsToShapes) : itemsToShapes[i].label \in {"beam", "pole"}


\* The axis splitRack cuts rack r on: x (1) when its world extent on x is
\* the greater, y (2) otherwise.
CutAxis(r) == IF Gt(WorldSpan(r, 1), WorldSpan(r, 2)) THEN 1 ELSE 2

\* Whether racks a and b are what a split of r on its cut axis may leave:
\* a keeps r's first corner and b r's second corner (the outer ends), and
\* the cut faces keep r's coordinate on the transverse axis.
SplitKeepsFrame(r, a, b) ==
  LET t == 3 - CutAxis(r)
  IN  /\ a.points[1] = r.points[1]
      /\ b.points[2] = r.points[2]
      /\ a.points[2][t] = r.points[2][t]
      /\ b.points[1][t] = r.points[1][t]
      /\ Len(a.points) = 2 /\ Len(b.points) = 2

\* C21: a split by splitRack, called directly or once by splitRacks,
\* changes only coordinates on the cut axis: both racks keep the rack's
\* extent on the transverse axis, and their outer ends on the cut axis are
\* the rack's two ends.
C21_SplitKeepsFrame ==
  [][ /\ (op'.name = "splitRack" /\ op'.rack # 0) =>
           SplitKeepsFrame(itemsToShapes[op'.rack],
                           itemsToShapes'[op'.rack],
                           itemsToShapes'[Len(itemsToShapes')])
      /\ (op'.name = "splitRacks" /\ Len(op'.calls) = 1) =>
           SplitKeepsFrame(itemsToShapes[op'.calls[1].rack],
                           itemsToShapes'[op'.calls[1].rack],
                           itemsToShapes'[Len(itemsToShapes')]) ]_vars

\* splitRacks has just split one rack at one beam.
C21_Witness ==
  /\ op.name = "splitRacks"
  /\ Len(op.calls) = 1
  /\ Len(itemsToShapes) = 3


\* Whether rack r is stored as newShape stores it: points[0] the world
\* minimum corner, points[1] the world maximum corner.
StoredMinFirst(r) ==
  \A k \in 1..2 : Le(WorldBox(r)[1][k], WorldBox(r)[2][k])

\* Whether the world coordinate v lies in the extent of shape on axis k.
Covers(shape, k, v) ==
  Le(WorldExtent(shape, k)[1], v) /\ Le(v, WorldExtent(shape, k)[2])

\* C22 (as claimed): for a rack stored minimum corner first and a cut
\* strictly inside it on the cut axis, the two racks splitRack leaves are
\* disjoint on the cut axis, neither contains the cut, and neither is
\* inverted (points[0] beyond points[1]) on the cut axis.
C22_SplitDisjoint ==
  [][ (op'.name = "splitRack" /\ op'.rack # 0) =>
        LET r   == itemsToShapes[op'.rack]
            k   == CutAxis(r)
            cut == qpointToPointcloud(op'.pos)[k]
            a   == itemsToShapes'[op'.rack]
            b   == itemsToShapes'[Len(itemsToShapes')]
        IN  (/\ StoredMinFirst(r)
             /\ Lt(WorldExtent(r, k)[1], cut)
             /\ Lt(cut, WorldExtent(r, k)[2])) =>
              /\ \/ Lt(WorldExtent(a, k)[2], WorldExtent(b, k)[1])
                 \/ Lt(WorldExtent(b, k)[2], WorldExtent(a, k)[1])
              /\ ~ Covers(a, k, cut) /\ ~ Covers(b, k, cut)
              /\ Le(WorldBox(a)[1][k], WorldBox(a)[2][k])
              /\ Le(WorldBox(b)[1][k], WorldBox(b)[2][k]) ]_vars


\* C23 (as claimed): splitRacks changes rack annotations only: every entry
\* of the label list that is not a rack, the beams among them, is the same
\* after splitRacks as before it.
C23_SplitRacksKeepsBeams ==
  [][ op'.name = "splitRacks" =>
        \A i \in 1..Len(itemsToShapes) :
          ~ isRackLabel(itemsToShapes[i].label) =>
            itemsToShapes'[i] = itemsToShapes[i] ]_vars


\* splitRacks' own test, on the geometry as it is: whether the beam's
\* point lies strictly inside the rack's span on x and within half the
\* rack's height + 2.0 of its centreline, or the same with x and y swapped.
PassesSplitTest(rack, beam) ==
  LET b == beam.points[1]
      p == rack.points
      within(k) == Lt(p[1][k], b[k]) /\ Lt(b[k], p[2][k])
      near(k) == Lt(RAbs(Sub(Div(Add(p[1][k], p[2][k]), I(2)), b[k])),
                    Add(Div(RAbs(Sub(p[1][k], p[2][k])), I(2)), I(2)))
  IN  (within(1) /\ near(2)) \/ (within(2) /\ near(1))

\* The boxes of the racks of a label list.
RackBoxes(items) == {items[i].points : i \in RackIndices(items)}

\* The document with entries i and j of the label list exchanged.
Exchanged(d, i, j) ==
  [d EXCEPT !.items[i] = d.items[j], !.items[j] = d.items[i]]

\* C24 (as claimed): after splitRacks over all racks no rack, old or new,
\* has a beam that qualifies for a split strictly inside its span, and the
\* rack boxes it leaves are the same whichever way round any two beams are
\* listed.
C24_SplitRacksComplete ==
  [][ (op'.name = "splitRacks" /\ ~ op'.selected) =>
        /\ \A i \in RackIndices(itemsToShapes'), j \in BeamIndices(itemsToShapes') :
             ~ PassesSplitTest(itemsToShapes'[i], itemsToShapes'[j])
        /\ \A i, j \in BeamIndices(itemsToShapes) :
             RackBoxes(splitRacks(Exchanged(Doc, i, j), FALSE).d.items) =
               RackBoxes(itemsToShapes') ]_vars


\* The shapes of the label file last read or written for the open file, none
\* when there is no label file.
LastSaved ==
  IF labelFile = "None" THEN << >> ELSE disk[labelFile].labels.shapes

\* C25 (as claimed): newShape, splitRack, splitRacks, unsplitRacks and
\* updateSelectedLabelWithHighlightedPoints leave the document dirty
\* whenever they change an annotation, so that the annotations never differ
\* from the last saved ones while dirty is false.
C25_GeometryChangeSetsDirty ==
  [][ /\ (/\ op'.name \in {"newShape", "splitRack", "splitRacks", "unsplitRacks",
                           "updateSelectedLabelWithHighlightedPoints"}
          /\ itemsToShapes' # itemsToShapes) => dirty'
      /\ (imageData /\ ~ dirty) => formatShapes(Doc) = LastSaved ]_vars


\* C26 (as claimed): mayContinue returns true only if there were no unsaved
\* changes, or the user chose Discard, or the user chose Save and the
\* annotations were saved (dirty is cleared); with Save and a failed or
\* cancelled save it does not return true with dirty still set.
C26_MayContinueSaved ==
  [][ (op'.name = "mayContinue" /\ op'.ret) =>
        \/ ~ dirty
        \/ op'.answer = "Discard"
        \/ op'.answer = "Save" /\ ~ dirty' ]_vars


\* Whether the rectangle drawn holds no point of the cloud.
DrawnEmpty(shape) ==
  ~ \E i \in 1..Len(cloud) :
      in_box_2d(<< qpointToPointcloud(shape.points[1]),
                   qpointToPointcloud(shape.points[2]) >>, cloud[i])

\* C27 (as claimed): when a rectangle that holds no point is drawn and
\* labelled as a rack, newShape raises nothing, adds no entry to the label
\* list and leaves dirty as it was, and the canvas holds exactly the shapes
\* of the label list: the rejected rectangle is not left on the canvas.
C27_EmptyRackRejected ==
  [][ (op'.name = "newShape" /\ isRackLabel(op'.text)
         /\ DrawnEmpty(op'.drawn)) =>
        /\ error' = "none"
        /\ itemsToShapes' = itemsToShapes
        /\ dirty' = dirty
        /\ \A c \in 1..Len(canvasShapes') : isListed(canvasShapes'[c])
        /\ {canvasShapes'[c].item : c \in 1..Len(canvasShapes')} =
             1..Len(itemsToShapes') ]_vars


\* C28: with a file of n >= 1 slices open, after any sequence of
\* showNextSlice and showLastSlice the slice index lies in 0 .. n-1 and is
\* the number of steps forward less the number of steps back, modulo n,
\* from slice 0 where the file opened: a step forward from the last slice
\* leads to slice 0, a step back from slice 0 to the last slice, and as
\* many steps back as forward lead to the starting slice.
C28_SliceIndexWraps ==
  (imageData /\ slices >= 1) =>
    /\ 0 <= sliceIdx /\ sliceIdx < slices
    /\ sliceIdx = (call.fwd + MaxSteps * slices - call.back) % slices

\* Four steps forward and four steps back through the three slices of the
\* scan, in some order, have led back to slice 0.
C28_Witness ==
  /\ imageData /\ slices = ScanLayers
  /\ call.fwd = MaxSteps /\ call.back = MaxSteps
  /\ op.name = "showLastSlice"
  /\ sliceIdx = 0

NoDuplicates(list) ==
  \A i, j \in 1..Len(list) : list[i] = list[j] => i = j

Position(list, x) == CHOOSE i \in 1..Len(list) : list[i] = x

Holds(list, x) == \E i \in 1..Len(list) : list[i] = x

\* C29: addRecentFile(name) on a list without duplicates and of at most
\* maxRecent entries leaves a list without duplicates and of at most
\* maxRecent entries, with name at index 0; the entries after it are the
\* previous entries other than name, in their previous order, all of them
\* but for the last (the oldest) of a full list that did not hold name.
C29_RecentFilesList ==
  [][op'.name = "addRecentFile" =>
       LET old == recentFiles
           new == recentFiles'
           rest == Tail(new)
           full == Len(old) >= maxRecent /\ ~ Holds(old, op'.file)
       IN  /\ NoDuplicates(new)
           /\ Len(new) <= maxRecent
           /\ new[1] = op'.file
           /\ \A i \in 1..Len(rest) : Holds(old, rest[i])
           /\ \A i, j \in 1..Len(rest) :
                 i < j => Position(old, rest[i]) < Position(old, rest[j])
           /\ \A i \in 1..Len(old) :
                 (old[i] # op'.file /\ ~ (full /\ i = Len(old)))
                   => Holds(rest, old[i])
           /\ full => ~ Holds(new, old[Len(old)])]_vars

\* A name the full list did not hold has been added: the oldest entry is
\* gone and the others have moved back by one.
C29_Witness ==
  /\ op.name = "addRecentFile"
  /\ recentFiles = <<"h", "a", "b", "c", "d", "e", "f">>

\* The beams of the list within threshold of world position p on axis k,
\* and the nearest of them on that axis.
BeamsWithin(items, p, k, threshold) ==
  {j \in BeamIndices(items) :
     Lt(RAbs(Sub(WorldPoint(items[j], 1)[k], p[k])), threshold)}
NearestWithin(items, p, k, threshold) ==
  LET near == BeamsWithin(items, p, k, threshold)
      dist(j) == RAbs(Sub(WorldPoint(items[j], 1)[k], p[k]))
  IN  {j \in near : \A m \in near : ~ Lt(dist(m), dist(j))}

\* C30 (as claimed): nearestCrosshairIntersection(point, 0.3) reports
\* intersected exactly when some beam is strictly within 0.3 of the point on
\* x or on y; on each axis the coordinate returned is the point's own when
\* no beam is within 0.3 on that axis, else that of a nearest beam among
\* those within 0.3 on that axis; and the result is the same whichever way
\* round any two entries of the label list are.
C30_NearestCrosshair ==
  call.fn = "nearestCrosshairIntersection" =>
    LET p == qpointToPointcloud(call.point)
        d == [Doc EXCEPT !.items = call.items]
    IN  /\ call.ret.intersected <=>
              (BeamsWithin(call.items, p, 1, Rat(3, 10))
                 \cup BeamsWithin(call.items, p, 2, Rat(3, 10)) # {})
        /\ \A k \in 1..2 :
              IF BeamsWithin(call.items, p, k, Rat(3, 10)) = {}
              THEN call.ret.intersection[k] = p[k]
              ELSE \E j \in NearestWithin(call.items, p, k, Rat(3, 10)) :
                     call.ret.intersection[k] = WorldPoint(call.items[j], 1)[k]
        /\ \A i, j \in 1..Len(call.items) :
              nearestCrosshairIntersection(Exchanged(d, i, j), call.point,
                                           Rat(3, 10)) = call.ret


=============================================================================
